---- MODULE Spec2Model ----
(***************************************************************************)
(* A model of pidj: the NeoTrellis key/pixel driver, the device runtime    *)
(* (keyboard.rs) and the sampler/looper application state (app.rs).        *)
(*                                                                         *)
(* The module holds several specifications over one set of variables.     *)
(* Each drives one part of the program and leaves the variables of the    *)
(* other parts at their idle values:                                       *)
(*   SpecDriver   the key-code remapping and the edge decoder              *)
(*   SpecPath     util::path_intersection                                  *)
(*   Spec         the application state behind process_events             *)
(*   SpecKeyboard the render loop of keyboard::run and its command queue   *)
(***************************************************************************)
EXTENDS Integers, Sequences, FiniteSets, TLC

VARIABLES
    \* ---- driver (neotrellis.rs, keypad.rs)
    key_in,        \* the (x, y) handed to Into<keypad::KeyEvent>
    seesaw_key,    \* the seesaw key code it produced (NoCode before the call)
    key_out,       \* the (x, y) that From<keypad::KeyEvent> produced from it
    edge_in,       \* the byte handed to Edge::from_u8
    edge_out,      \* its result ("pending" before the call)
    \* ---- driver (seesaw/mod.rs): one call of SeeSaw::write or SeeSaw::read
    sw_call,       \* the call: its kind, register, payload and buffer length
    sw_log,        \* what the call has done on the bus and the delay, in order
    sw_result,     \* its result ("pending" before it returns)
    \* ---- util.rs
    left, right,   \* the two arguments of path_intersection
    path_pc,       \* "args" before the calls, "done" after
    pi_lr, pi_rl, pi_ll,  \* path_intersection(left,right), (right,left), (left,left)
    \* ---- app.rs
    state,         \* the AppState behind the mutex: Loading or Play
    loading_anim_ct,   \* TRUE once the loading animation's token is cancelled
    loading_end_sent,  \* TRUE once the audio engine has sent LoadingEnd
    anim_pc,       \* where the thread of the loading animation is
    anim_i,        \* its loop index at first, then its `highlight`
    anim_late,     \* history: the commands it has sent since the change to Play
    now,           \* the wall clock, in microseconds since the program started
    audio_sent,    \* the audio::Command::Play sound ids sent by the last step
    kb_sent,       \* the keyboard::Command::SetState sent by the last step
    panicked,      \* "no", or why a task of the application panicked
    took,          \* the branch the last step took (a history variable)
    \* ---- app.rs: process_loops and the Mutex of the AppState
    state_lock,        \* the holder of the Mutex of the AppState
    loops_pc,          \* where process_loops is in its loop
    interval_period,   \* interval.period() of process_loops, in microseconds
    interval_deadline, \* the instant of the next tick of that interval
    sched_first,       \* history: loop_time() of the first iteration in Play
    sched_idx,         \* history: loop_time() of the last iteration in Play
    loop_plays,        \* history: the Play commands process_loops sent for loops[1]
    \* ---- keyboard.rs: the render loop
    cmd_queue,     \* the commands in the channel behind cmd_rx
    sends,         \* how many commands have been sent so far
    senders_alive, \* whether a sender of the channel still exists
    pixel_states,  \* the render loop's pixel_states, by index y * 4 + x
    pixel_buf,     \* the device's pixel buffer: the colour bytes of each pixel
    shown,         \* what the LEDs show: the buffer at the last SHOW
    render_pc,     \* where the render loop is in its iteration
    start_len,     \* history: the length of cmd_queue when the iteration began
    drained,       \* history: the commands the last drain took from the channel
    writes,        \* history: the pixel writes of the last animation pass
    fade_elapsed,  \* history: the wall-clock time each fading pixel has been animated
    \* ---- keyboard.rs: the device shared by the two threads of run
    nt_lock,       \* who holds the guard of Mutex::new(nt)
    bus_ok,        \* whether i2c transactions succeed
    poll_pc,       \* where the polling loop is in its iteration
    fifo,          \* the key events pending in the device's FIFO
    evt_count,     \* the count the polling loop read in this iteration
    evt_sent,      \* the events the last poll sent on evt_tx
    cancelled,     \* whether the token handed to run has been cancelled
    run_result,    \* what keyboard::run has returned, if it has
    events_result, \* what process_events has returned, if it has
    send_blocked   \* the command of a kb_cmd_tx.send that waits for room, if any

busVars == <<sw_call, sw_log, sw_result>>
driverVars == <<key_in, seesaw_key, key_out, edge_in, edge_out, busVars>>
pathVars == <<left, right, path_pc, pi_lr, pi_rl, pi_ll>>
schedVars == <<state_lock, loops_pc, interval_period, interval_deadline, sched_first, sched_idx,
              loop_plays>>
animVars == <<anim_pc, anim_i, anim_late>>
appVars == <<state, loading_anim_ct, animVars, loading_end_sent, now, audio_sent, kb_sent, panicked, took,
            schedVars>>
pollVars == <<poll_pc, fifo, evt_count, evt_sent, cancelled, run_result, events_result>>
kbVars == <<cmd_queue, sends, senders_alive, pixel_states, pixel_buf, shown, render_pc, start_len,
           drained, writes, fade_elapsed, nt_lock, bus_ok, pollVars, send_blocked>>
vars == <<driverVars, pathVars, appVars, kbVars>>

(***************************************************************************)
(* Driver: neotrellis.rs, keypad.rs                                        *)
(***************************************************************************)

\* the grid is 4 x 4                                  (keyboard.rs:76-77)
GridSize == 4
Coord == 0 .. (GridSize - 1)

\* one byte
ByteMax == 255
Byte == 0 .. ByteMax

NoCode == 0 - 1
NoKey == <<-1, -1>>

neotrellis_xy_to_key(x, y) == y * 4 + x

neotrellis_key_to_xy(k) == <<k \div 4, k % 4>>

neotrellis_key_to_seesaw(k) == (k \div 4) * 8 + (k % 4)

neotrellis_key_from_seesaw(k) == (k \div 8) * 4 + (k % 8)

\* impl Into<keypad::KeyEvent> for KeyEvent: the key field
KeyEvent_into(xy) == neotrellis_key_to_seesaw(neotrellis_xy_to_key(xy[1], xy[2]))

\* impl From<keypad::KeyEvent> for KeyEvent: the key field
KeyEvent_from(code) == neotrellis_key_to_xy(neotrellis_key_from_seesaw(code))

Edge_from_u8_swapped(val) ==
    CASE val = 0 -> "High"
      [] val = 1 -> "Low"
      [] val = 2 -> "Rising"
      [] val = 3 -> "Falling"
      [] OTHER -> "InvalidArgument"

Edge_from_u8(val) ==
    CASE val = 0 -> "High"
      [] val = 1 -> "Low"
      [] val = 2 -> "Falling"
      [] val = 3 -> "Rising"
      [] OTHER -> "InvalidArgument"

\* const BUFFER_MAX, PAYLOAD_MAX
BUFFER_MAX == 32
PAYLOAD_MAX == BUFFER_MAX - 2

\* delay.delay_us(14000)
SettleMicros == 14000

\* the longest payload tried
MaxPayload == 32

\* a call of SeeSaw::write (buf = payload) or SeeSaw::read (buf of len bytes)
SwCall(op, base, function, payload, len) ==
    [op |-> op, base |-> base, function |-> function, payload |-> payload, len |-> len]

NoCall == SwCall("none", 0, 0, <<>>, 0)

\* the registers tried: the pixel buffer and the FIFO of key events
SwRegisters == {<<14, 4>>, <<16, 16>>}

\* the payload of n bytes that starts with the byte b
PayloadOf(n, b) == [i \in 1 .. n |-> (b + i - 1) % (ByteMax + 1)]

BusWrite(bytes) == [op |-> "write", bytes |-> bytes, len |-> Len(bytes)]
BusRead(len) == [op |-> "read", bytes |-> <<>>, len |-> len]
BusDelay(us) == [op |-> "delay", bytes |-> <<>>, len |-> us]

SwOutcome(result, log) == [result |-> result, log |-> log]

\* SeeSaw::write without the check of the size of the payload
SeeSaw_write_unchecked(base, function, buf, ok) ==
    SwOutcome(IF ok THEN "Ok" ELSE "I2c", <<BusWrite(<<base, function>> \o buf)>>)

\* SeeSaw::write; ok is whether the transaction of the bus succeeds
SeeSaw_write(base, function, buf, ok) ==
    IF Len(buf) > PAYLOAD_MAX
    THEN SwOutcome("InvalidSize", <<>>)
    ELSE SwOutcome(IF ok THEN "Ok" ELSE "I2c", <<BusWrite(<<base, function>> \o buf)>>)

\* SeeSaw::read; wok and rok are whether its two transactions succeed
SeeSaw_read(base, function, len, wok, rok) ==
    LET w == SeeSaw_write(base, function, <<>>, wok)
    IN  IF w.result # "Ok"
        THEN w
        ELSE SwOutcome(IF rok THEN "Ok" ELSE "I2c",
                       w.log \o <<BusDelay(SettleMicros), BusRead(len)>>)

BusIdle ==
    /\ sw_call = NoCall
    /\ sw_log = <<>>
    /\ sw_result = "pending"

DriverIdle ==
    /\ key_in = NoKey
    /\ seesaw_key = NoCode
    /\ key_out = NoKey
    /\ edge_in = 0
    /\ edge_out = "pending"
    /\ BusIdle

\* a call of SeeSaw::write or SeeSaw::read about to be made
InitBus ==
    /\ \E r \in SwRegisters :
          \/ \E n \in 0 .. MaxPayload, b \in {0, ByteMax} :
                sw_call = SwCall("write", r[1], r[2], PayloadOf(n, b), 0)
          \/ \E len \in {1, 2} : sw_call = SwCall("read", r[1], r[2], <<>>, len)
    /\ sw_log = <<>>
    /\ sw_result = "pending"
    /\ key_in = NoKey
    /\ seesaw_key = NoCode
    /\ key_out = NoKey
    /\ edge_in = 0
    /\ edge_out = "pending"

\* the call of SeeSaw::write is made
CallWrite ==
    /\ sw_call.op = "write"
    /\ sw_result = "pending"
    /\ \E ok \in BOOLEAN :
          LET out == SeeSaw_write(sw_call.base, sw_call.function, sw_call.payload, ok)
          IN  sw_result' = out.result /\ sw_log' = out.log
    /\ UNCHANGED <<sw_call, key_in, seesaw_key, key_out, edge_in, edge_out>>

\* the call of SeeSaw::read is made
CallRead ==
    /\ sw_call.op = "read"
    /\ sw_result = "pending"
    /\ \E wok \in BOOLEAN, rok \in BOOLEAN :
          LET out == SeeSaw_read(sw_call.base, sw_call.function, sw_call.len, wok, rok)
          IN  sw_result' = out.result /\ sw_log' = out.log
    /\ UNCHANGED <<sw_call, key_in, seesaw_key, key_out, edge_in, edge_out>>

InitDriver ==
    /\ key_in \in Coord \X Coord
    /\ seesaw_key = NoCode
    /\ key_out = NoKey
    /\ edge_in \in Byte
    /\ edge_out = "pending"
    /\ BusIdle

\* KeyEvent -> keypad::KeyEvent
ConvertInto ==
    /\ seesaw_key = NoCode
    /\ seesaw_key' = KeyEvent_into(key_in)
    /\ UNCHANGED <<key_in, key_out, edge_in, edge_out, busVars>>

\* keypad::KeyEvent -> KeyEvent
ConvertFrom ==
    /\ seesaw_key # NoCode
    /\ key_out = NoKey
    /\ key_out' = KeyEvent_from(seesaw_key)
    /\ UNCHANGED <<key_in, seesaw_key, edge_in, edge_out, busVars>>

DecodeEdge ==
    /\ edge_out = "pending"
    /\ edge_out' = Edge_from_u8(edge_in)
    /\ UNCHANGED <<key_in, seesaw_key, key_out, edge_in, busVars>>

(***************************************************************************)
(* util.rs: path_intersection.  A path is the sequence of its components   *)
(* (Path::iter); an absolute path has the root "/" as its first one.       *)
(***************************************************************************)

\* bounds of the paths tried
MaxPathLen == 3
PathSegs == {"a", "b"}

RECURSIVE SeqsUpTo(_, _)
SeqsUpTo(S, n) ==
    IF n = 0 THEN {<<>>}
    ELSE LET shorter == SeqsUpTo(S, n - 1)
         IN  shorter \cup {Append(p, s) : p \in shorter, s \in S}

\* the paths of the test in util.rs, shortened
ExamplePaths == { <<"/", "a", "b", "c", "d">>, <<"/", "a", "b", "c", "e">> }

PathInputs == SeqsUpTo(PathSegs, MaxPathLen) \cup ExamplePaths

\* zip + filter_map instead of map_while: keeps every equal pair
RECURSIVE path_intersection_filter(_, _)
path_intersection_filter(l, r) ==
    IF l = <<>> \/ r = <<>> THEN <<>>
    ELSE IF Head(l) = Head(r)
         THEN <<Head(l)>> \o path_intersection_filter(Tail(l), Tail(r))
         ELSE path_intersection_filter(Tail(l), Tail(r))

\* zip stops at the shorter one, map_while stops at the first unequal pair,
\* collect pushes the components kept
RECURSIVE path_intersection(_, _)
path_intersection(l, r) ==
    IF l = <<>> \/ r = <<>> THEN <<>>
    ELSE IF Head(l) = Head(r)
         THEN <<Head(l)>> \o path_intersection(Tail(l), Tail(r))
         ELSE <<>>

PathIdle ==
    /\ left = <<>>
    /\ right = <<>>
    /\ path_pc = "idle"
    /\ pi_lr = <<>>
    /\ pi_rl = <<>>
    /\ pi_ll = <<>>

InitPath ==
    /\ left \in PathInputs
    /\ right \in PathInputs
    /\ path_pc = "args"
    /\ pi_lr = <<>>
    /\ pi_rl = <<>>
    /\ pi_ll = <<>>

PathIntersect ==
    /\ path_pc = "args"
    /\ pi_lr' = path_intersection(left, right)
    /\ pi_rl' = path_intersection(right, left)
    /\ pi_ll' = path_intersection(left, left)
    /\ path_pc' = "done"
    /\ UNCHANGED <<left, right>>


(***************************************************************************)
(* app.rs: the application state.  Option<T> is a sequence: None is <<>>   *)
(* and Some(v) is <<v>>.  A SoundId is the index of its sound in the       *)
(* catalog, counted from 1 here (from 0 in the program).                   *)
(***************************************************************************)

None == <<>>
Some(v) == <<v>>
IsSome(o) == o # <<>>
Unwrap(o) == o[1]

\* ---- the catalogs LoadingEnd may carry (path components, duration in us)
Sound(p, d) == [path |-> p, duration |-> d]

CatNested ==
    << Sound(<<"/", "audio", "kick">>, 2000000),
       Sound(<<"/", "audio", "drums", "snare">>, 500000),
       Sound(<<"/", "audio", "drums", "clap">>, 10000) >>

CatSingle == << Sound(<<"/", "audio", "drums", "snare">>, 500000) >>

CatEmpty == << >>

Catalogs == {CatNested, CatSingle, CatEmpty}

\* the order of path components (Ord for Path compares component by
\* component; the root sorts before every name)
SegOrder == <<"/", "audio", "clap", "drums", "kick", "snare">>
Range(f) == {f[i] : i \in DOMAIN f}
SegRank(s) == CHOOSE i \in 1 .. Len(SegOrder) : SegOrder[i] = s

RECURSIVE PathLess(_, _)
PathLess(p, q) ==
    IF q = <<>> THEN FALSE
    ELSE IF p = <<>> THEN TRUE
    ELSE IF Head(p) = Head(q) THEN PathLess(Tail(p), Tail(q))
    ELSE SegRank(Head(p)) < SegRank(Head(q))

\* Path::parent: None for the empty path and for the root
Path_parent(p) ==
    IF p = <<>> \/ p = <<"/">> THEN None ELSE Some(SubSeq(p, 1, Len(p) - 1))

\* Path::starts_with
Path_starts_with(p, base) ==
    /\ Len(base) <= Len(p)
    /\ SubSeq(p, 1, Len(base)) = base

\* Path::strip_prefix: Ok(rest) as Some(rest), Err as None
Path_strip_prefix(p, base) ==
    IF Path_starts_with(p, base)
    THEN Some(SubSeq(p, Len(base) + 1, Len(p)))
    ELSE None

\* PathBuf::pop: drops the last component when there is a parent
PathBuf_pop(p) == IF IsSome(Path_parent(p)) THEN Unwrap(Path_parent(p)) ELSE p

\* sort_by_key(|id| &sounds[id.0].path) of ids given in catalog order:
\* a stable sort, so among equal paths the smaller id comes first
RECURSIVE SortByPath(_, _)
SortByPath(ids, sounds) ==
    IF ids = {} THEN <<>>
    ELSE LET first == CHOOSE i \in ids : \A j \in ids \ {i} :
                          \/ PathLess(sounds[i].path, sounds[j].path)
                          \/ (~PathLess(sounds[j].path, sounds[i].path) /\ i < j)
         IN  <<first>> \o SortByPath(ids \ {first}, sounds)

\* ---- ReassignState

\* ReassignState::update
ReassignState_update(r, sounds) ==
    LET in_dir == {i \in 1 .. Len(sounds) :
                      Path_parent(sounds[i].path) = Some(r.current_dir)}
        deeper == {i \in 1 .. Len(sounds) :
                      LET partial_dir == Path_strip_prefix(sounds[i].path, r.current_dir)
                      IN  IsSome(partial_dir) /\ Len(Unwrap(partial_dir)) > 1}
    IN  [r EXCEPT
            !.sounds_in_dir = SortByPath(in_dir, sounds),
            !.subdirs_in_dir =
                {Unwrap(Path_strip_prefix(sounds[i].path, r.current_dir))[1] : i \in deeper}]

\* ReassignState::select_dir
ReassignState_select_dir(r, dir, sounds) ==
    ReassignState_update([r EXCEPT !.current_dir = Append(r.current_dir, dir)], sounds)

\* up_dir without the comparison with base_dir
ReassignState_up_dir_unchecked(r, sounds) ==
    ReassignState_update([r EXCEPT !.current_dir = PathBuf_pop(r.current_dir)], sounds)

\* up_dir that pops without recomputing the listing
ReassignState_up_dir_stale(r, sounds) ==
    IF Path_starts_with(r.current_dir, r.base_dir) /\ r.current_dir # r.base_dir
    THEN [r EXCEPT !.current_dir = PathBuf_pop(r.current_dir)]
    ELSE r

\* ReassignState::up_dir
ReassignState_up_dir(r, sounds) ==
    IF Path_starts_with(r.current_dir, r.base_dir) /\ r.current_dir # r.base_dir
    THEN ReassignState_update([r EXCEPT !.current_dir = PathBuf_pop(r.current_dir)], sounds)
    ELSE r

\* ReassignState::select_sound
ReassignState_select_sound(r, id) == [r EXCEPT !.selection = Some(id)]

\* ---- PlayState

FnKeys == 0 .. 3
SoundKeyPos == (0 .. 3) \X (1 .. 3)

\* a tick is num/den microseconds.  Duration::from_micros(1_000_000 / 60)
TickMicros == 16666
InitialTick == [num |-> TickMicros, den |-> 1]
MicrosPerSec == 1000000

\* PlayState { .. } as process_audio_event builds it
NewPlayState(sounds, t) ==
    [ sounds |-> sounds,
      sound_keys |-> [k \in SoundKeyPos |-> [binding |-> None, pressed |-> FALSE]],
      fn_keys |-> [i \in FnKeys |-> [pressed |-> FALSE]],
      reassign |-> None,
      loop_divider |-> None,
      quantize |-> TRUE,
      beginning |-> t,
      loops |-> <<>>,
      tick |-> InitialTick ]

\* the fold of reassign_sound_begin over the catalog's paths
RECURSIVE FoldPathIntersection(_, _, _)
FoldPathIntersection(acc, sounds, i) ==
    IF i > Len(sounds) THEN acc
    ELSE FoldPathIntersection(
             IF IsSome(acc) THEN Some(path_intersection(Unwrap(acc), sounds[i].path))
             ELSE Some(sounds[i].path),
             sounds, i + 1)

\* begin with current_dir left at the root instead of base_dir
PlayState_reassign_sound_begin_root(ps, key) ==
    LET folded == FoldPathIntersection(None, ps.sounds, 1)
        base_dir == IF IsSome(folded) THEN Unwrap(folded) ELSE <<>>
        st == [ key |-> key,
                current_dir |-> IF base_dir = <<>> THEN <<>> ELSE <<Head(base_dir)>>,
                base_dir |-> base_dir,
                sounds_in_dir |-> <<>>,
                subdirs_in_dir |-> {},
                selection |-> None ]
    IN  [ps EXCEPT !.reassign = Some(ReassignState_update(st, ps.sounds))]

\* PlayState::reassign_sound_begin
PlayState_reassign_sound_begin(ps, key) ==
    LET folded == FoldPathIntersection(None, ps.sounds, 1)
        base_dir == IF IsSome(folded) THEN Unwrap(folded) ELSE <<>>
        st == [ key |-> key,
                current_dir |-> base_dir,
                base_dir |-> base_dir,
                sounds_in_dir |-> <<>>,
                subdirs_in_dir |-> {},
                selection |-> None ]
    IN  [ps EXCEPT !.reassign = Some(ReassignState_update(st, ps.sounds))]

\* quit that commits a pending selection to the target key
PlayState_reassign_sound_quit_commit(ps) ==
    IF IsSome(ps.reassign) /\ IsSome(Unwrap(ps.reassign).selection)
    THEN [ps EXCEPT !.reassign = None,
                    !.sound_keys[Unwrap(ps.reassign).key].binding =
                        Unwrap(ps.reassign).selection]
    ELSE [ps EXCEPT !.reassign = None]

\* PlayState::reassign_sound_quit
PlayState_reassign_sound_quit(ps) == [ps EXCEPT !.reassign = None]

\* save that binds the selection to every key of the target's row
PlayState_reassign_sound_save_row(ps) ==
    IF IsSome(ps.reassign)
    THEN LET r == Unwrap(ps.reassign)
         IN  PlayState_reassign_sound_quit(
                 [ps EXCEPT !.sound_keys =
                     [k \in SoundKeyPos |->
                         IF k[2] = r.key[2]
                         THEN [ps.sound_keys[k] EXCEPT !.binding = r.selection]
                         ELSE ps.sound_keys[k]]])
    ELSE ps

\* PlayState::reassign_sound_save
PlayState_reassign_sound_save(ps) ==
    IF IsSome(ps.reassign)
    THEN LET r == Unwrap(ps.reassign)
         IN  PlayState_reassign_sound_quit(
                 [ps EXCEPT !.sound_keys[r.key].binding = r.selection])
    ELSE ps

\* PlayState::reassign_sound_up
PlayState_reassign_sound_up(ps) ==
    IF IsSome(ps.reassign)
    THEN [ps EXCEPT !.reassign = Some(ReassignState_up_dir(Unwrap(ps.reassign), ps.sounds))]
    ELSE ps

\* PlayState::loop_time at wall-clock time t: (t - beginning) / tick, truncated
PlayState_loop_time(ps, t) == ((t - ps.beginning) * ps.tick.den) \div ps.tick.num

\* the period add_to_loops gives a loop of `sound` under divider d
LoopPeriod_swapped(ps, d, sound) ==
    IF d < 0 THEN 60 \div (-d)
    ELSE IF d = 0 THEN (ps.sounds[sound].duration * ps.tick.den) \div ps.tick.num
    ELSE 60 * d

LoopPeriod(ps, d, sound) ==
    IF d < 0 THEN 60 * (-d)
    ELSE IF d = 0 THEN (ps.sounds[sound].duration * ps.tick.den) \div ps.tick.num
    ELSE 60 \div d

\* offset % period with period = 0 panics
AddToLoopsPanics(ps, sound) ==
    /\ IsSome(ps.loop_divider)
    /\ ps.quantize
    /\ LoopPeriod(ps, Unwrap(ps.loop_divider), sound) = 0

\* add_to_loops without the rounding of a quantized offset
PlayState_add_to_loops_unrounded(ps, sound, t) ==
    IF IsSome(ps.loop_divider)
    THEN LET period == LoopPeriod(ps, Unwrap(ps.loop_divider), sound)
             time == PlayState_loop_time(ps, t)
         IN  [ps EXCEPT !.loops =
                 Append(ps.loops, [offset |-> time, period |-> period, sound |-> sound])]
    ELSE ps

\* PlayState::add_to_loops at wall-clock time t (when it does not panic)
PlayState_add_to_loops(ps, sound, t) ==
    IF IsSome(ps.loop_divider)
    THEN LET period == LoopPeriod(ps, Unwrap(ps.loop_divider), sound)
             time == PlayState_loop_time(ps, t)
             offset == IF ps.quantize THEN time - (time % period) ELSE time
         IN  [ps EXCEPT !.loops =
                 Append(ps.loops, [offset |-> offset, period |-> period, sound |-> sound])]
    ELSE ps

\* f32::floor(1. / self.tick.as_secs_f32())
PlayState_bpm(ps) == (MicrosPerSec * ps.tick.den) \div ps.tick.num

\* PlayState::bpm_up: tick = 1 / (bpm + 1.5) s = 2_000_000 / (2 bpm + 3) us
PlayState_bpm_up(ps) ==
    [ps EXCEPT !.tick = [num |-> 2 * MicrosPerSec, den |-> 2 * PlayState_bpm(ps) + 3]]

\* Duration::from_secs_f32 panics on a negative value: 1 / (bpm - 0.5), bpm = 0
BpmDownPanics(ps) == 2 * PlayState_bpm(ps) - 1 < 0

\* PlayState::bpm_down: tick = 1 / (bpm - 0.5) s = 2_000_000 / (2 bpm - 1) us
PlayState_bpm_down(ps) ==
    [ps EXCEPT !.tick = [num |-> 2 * MicrosPerSec, den |-> 2 * PlayState_bpm(ps) - 1]]

\* PlayState::clear_loops
PlayState_clear_loops(ps) ==
    IF IsSome(ps.loop_divider)
    THEN [ps EXCEPT !.loops = <<>>, !.loop_divider = None]
    ELSE ps

\* the value no arm of cycle_loop_mode but unreachable!() matches
Unreachable == Some(99)

\* the ring with the arm of -4 jumping to -2
CycleLoopMode_skip(d) ==
    CASE d = None -> Some(-8)
      [] d = Some(-8) -> Some(-6)
      [] d = Some(-6) -> Some(-4)
      [] d = Some(-4) -> Some(-2)
      [] d = Some(-3) -> Some(-2)
      [] d = Some(-2) -> Some(0)
      [] d = Some(0) -> Some(1)
      [] d = Some(1) -> Some(2)
      [] d = Some(2) -> Some(3)
      [] d = Some(3) -> Some(4)
      [] d = Some(4) -> Some(5)
      [] d = Some(5) -> Some(6)
      [] d = Some(6) -> None
      [] OTHER -> Unreachable

\* the match of PlayState::cycle_loop_mode
CycleLoopMode(d) ==
    CASE d = None -> Some(-8)
      [] d = Some(-8) -> Some(-6)
      [] d = Some(-6) -> Some(-4)
      [] d = Some(-4) -> Some(-3)
      [] d = Some(-3) -> Some(-2)
      [] d = Some(-2) -> Some(0)
      [] d = Some(0) -> Some(1)
      [] d = Some(1) -> Some(2)
      [] d = Some(2) -> Some(3)
      [] d = Some(3) -> Some(4)
      [] d = Some(4) -> Some(5)
      [] d = Some(5) -> Some(6)
      [] d = Some(6) -> None
      [] OTHER -> Unreachable

CycleLoopModePanics(ps) == CycleLoopMode(ps.loop_divider) = Unreachable

\* PlayState::cycle_loop_mode (when it does not panic)
PlayState_cycle_loop_mode(ps) == [ps EXCEPT !.loop_divider = CycleLoopMode(ps.loop_divider)]

\* PlayState::cycle_quantize
PlayState_cycle_quantize(ps) == [ps EXCEPT !.quantize = ~ps.quantize]

\* ---- LED feedback

\* Color { r, g, b, w } as <<r, g, b, w>>
Color_BLACK == <<0, 0, 0, 0>>
Color_WHITE == <<255, 255, 255, 255>>
Color_from_u8(r, g, b) == <<r, g, b, 255>>

Solid(color, update) == [kind |-> "Solid", color |-> color, update |-> update]

\* the Command that set_solid_color sends
set_solid_color(x, y, color) == [x |-> x, y |-> y, state |-> Solid(color, TRUE)]

\* for x in 0..4 { for y in 1..4 { .. } }: the i-th sound key visited
SoundKeyAt(i) == <<(i - 1) \div 3, ((i - 1) % 3) + 1>>

\* update_keyboard_freeplay that also turns F4 off in normal mode
update_keyboard_freeplay_f4(ps) ==
    IF IsSome(ps.reassign)
    THEN LET r == Unwrap(ps.reassign)
         IN  << set_solid_color(0, 0, Color_from_u8(255, 0, 0)),
                set_solid_color(1, 0, Color_from_u8(255, 165, 0)),
                set_solid_color(2, 0, Color_BLACK),
                set_solid_color(3, 0, IF IsSome(r.selection)
                                      THEN Color_from_u8(0, 255, 0)
                                      ELSE Color_from_u8(0, 50, 0)) >>
             \o [i \in 1 .. 12 |->
                    set_solid_color(SoundKeyAt(i)[1], SoundKeyAt(i)[2],
                        IF SoundKeyAt(i) = r.key THEN Color_WHITE ELSE Color_BLACK)]
    ELSE << set_solid_color(0, 0, Color_WHITE),
            set_solid_color(1, 0, IF ps.quantize THEN Color_WHITE ELSE Color_BLACK),
            set_solid_color(2, 0, Color_WHITE),
            set_solid_color(3, 0, Color_BLACK) >>
         \o [i \in 1 .. 12 |->
                set_solid_color(SoundKeyAt(i)[1], SoundKeyAt(i)[2],
                    IF IsSome(ps.sound_keys[SoundKeyAt(i)].binding)
                    THEN Color_from_u8(50, 50, 50)
                    ELSE Color_BLACK)]

\* update_keyboard_freeplay with the two greens of the save key exchanged
update_keyboard_freeplay_greens(ps) ==
    IF IsSome(ps.reassign)
    THEN LET r == Unwrap(ps.reassign)
         IN  << set_solid_color(0, 0, Color_from_u8(255, 0, 0)),
                set_solid_color(1, 0, Color_from_u8(255, 165, 0)),
                set_solid_color(2, 0, Color_BLACK),
                set_solid_color(3, 0, IF IsSome(r.selection)
                                      THEN Color_from_u8(0, 50, 0)
                                      ELSE Color_from_u8(0, 255, 0)) >>
             \o [i \in 1 .. 12 |->
                    set_solid_color(SoundKeyAt(i)[1], SoundKeyAt(i)[2],
                        IF SoundKeyAt(i) = r.key THEN Color_WHITE ELSE Color_BLACK)]
    ELSE << set_solid_color(0, 0, Color_WHITE),
            set_solid_color(1, 0, IF ps.quantize THEN Color_WHITE ELSE Color_BLACK),
            set_solid_color(2, 0, Color_WHITE) >>
         \o [i \in 1 .. 12 |->
                set_solid_color(SoundKeyAt(i)[1], SoundKeyAt(i)[2],
                    IF IsSome(ps.sound_keys[SoundKeyAt(i)].binding)
                    THEN Color_from_u8(50, 50, 50)
                    ELSE Color_BLACK)]

\* update_keyboard_freeplay: the commands it sends, in order
update_keyboard_freeplay(ps) ==
    IF IsSome(ps.reassign)
    THEN LET r == Unwrap(ps.reassign)
         IN  << set_solid_color(0, 0, Color_from_u8(255, 0, 0)),
                set_solid_color(1, 0, Color_from_u8(255, 165, 0)),
                set_solid_color(2, 0, Color_BLACK),
                set_solid_color(3, 0, IF IsSome(r.selection)
                                      THEN Color_from_u8(0, 255, 0)
                                      ELSE Color_from_u8(0, 50, 0)) >>
             \o [i \in 1 .. 12 |->
                    set_solid_color(SoundKeyAt(i)[1], SoundKeyAt(i)[2],
                        IF SoundKeyAt(i) = r.key THEN Color_WHITE ELSE Color_BLACK)]
    ELSE << set_solid_color(0, 0, Color_WHITE),
            set_solid_color(1, 0, IF ps.quantize THEN Color_WHITE ELSE Color_BLACK),
            set_solid_color(2, 0, Color_WHITE) >>
         \o [i \in 1 .. 12 |->
                set_solid_color(SoundKeyAt(i)[1], SoundKeyAt(i)[2],
                    IF IsSome(ps.sound_keys[SoundKeyAt(i)].binding)
                    THEN Color_from_u8(50, 50, 50)
                    ELSE Color_BLACK)]

\* ---- process_keyboard_event

Edges == {"High", "Low", "Falling", "Rising"}

\* High | Rising => true, Low | Falling => false
EdgePressed(edge) == edge \in {"High", "Rising"}

\* the press flag of the key of the event
SetPressed(ps, x, y, pressed) ==
    IF y = 0
    THEN [ps EXCEPT !.fn_keys[x].pressed = pressed]
    ELSE [ps EXCEPT !.sound_keys[<<x, y>>].pressed = pressed]

Outcome(ps, audio, panic, branch) ==
    [ps |-> ps, audio |-> audio, panic |-> panic, branch |-> branch]

\* the branch of reassignment in which F2 also toggles quantize
KeyInReassign_quantize(ps, x, y, pressed) ==
    IF pressed /\ y = 0
    THEN CASE x = 0 -> Outcome(PlayState_reassign_sound_quit(ps), <<>>, "no", "quit")
           [] x = 1 -> Outcome(PlayState_cycle_quantize(PlayState_reassign_sound_up(ps)),
                               <<>>, "no", "up")
           [] x = 2 -> Outcome(ps, <<>>, "no", "flag")
           [] x = 3 -> Outcome(PlayState_reassign_sound_save(ps), <<>>, "no", "save")
    ELSE Outcome(ps, <<>>, "no", "flag")

\* the branch taken while a ReassignState is present
KeyInReassign(ps, x, y, pressed) ==
    IF pressed /\ y = 0
    THEN CASE x = 0 -> Outcome(PlayState_reassign_sound_quit(ps), <<>>, "no", "quit")
           [] x = 1 -> Outcome(PlayState_reassign_sound_up(ps), <<>>, "no", "up")
           [] x = 2 -> Outcome(ps, <<>>, "no", "flag")
           [] x = 3 -> Outcome(PlayState_reassign_sound_save(ps), <<>>, "no", "save")
    ELSE Outcome(ps, <<>>, "no", "flag")

\* the branch of a pressed sound key in normal mode
SoundKeyPressed(ps, x, y, t) ==
    IF ps.fn_keys[0].pressed
    THEN Outcome(PlayState_reassign_sound_begin(ps, <<x, y>>), <<>>, "no", "begin")
    ELSE IF IsSome(ps.sound_keys[<<x, y>>].binding)
         THEN LET id == Unwrap(ps.sound_keys[<<x, y>>].binding)
              IN  IF AddToLoopsPanics(ps, id)
                  THEN Outcome(ps, <<>>, "remainder by zero", "panic")
                  ELSE Outcome(PlayState_add_to_loops(ps, id, t), <<id>>, "no", "play")
         ELSE Outcome(ps, <<>>, "no", "flag")

\* the branch of a pressed function key in normal mode
FnKeyPressed(ps, x) ==
    CASE x = 0 -> Outcome(ps, <<>>, "no", "flag")
      [] x = 1 -> Outcome(PlayState_cycle_quantize(ps), <<>>, "no", "quantize")
      [] x = 2 -> IF ps.fn_keys[0].pressed
                  THEN IF BpmDownPanics(ps)
                       THEN Outcome(ps, <<>>, "negative duration", "panic")
                       ELSE Outcome(PlayState_bpm_down(ps), <<>>, "no", "bpm_down")
                  ELSE Outcome(PlayState_clear_loops(ps), <<>>, "no", "clear")
      [] x = 3 -> IF ps.fn_keys[0].pressed
                  THEN Outcome(PlayState_bpm_up(ps), <<>>, "no", "bpm_up")
                  ELSE IF CycleLoopModePanics(ps)
                       THEN Outcome(ps, <<>>, "unreachable", "panic")
                       ELSE Outcome(PlayState_cycle_loop_mode(ps), <<>>, "no", "cycle")

\* the AppState::Play arm of process_keyboard_event at wall-clock time t:
\* the new PlayState, the Play commands sent, whether it panicked, and the
\* branch taken
KeyOutcome(ps, x, y, edge, t) ==
    LET pressed == EdgePressed(edge)
        flagged == SetPressed(ps, x, y, pressed)
    IN  IF IsSome(flagged.reassign)
        THEN KeyInReassign(flagged, x, y, pressed)
        ELSE IF pressed
             THEN IF y > 0
                  THEN SoundKeyPressed(flagged, x, y, t)
                  ELSE FnKeyPressed(flagged, x)
             ELSE Outcome(flagged, <<>>, "no", "flag")

InPlay == state.tag = "Play"

Loading == [tag |-> "Loading", stage |-> "DiscoveringAudio"]
Play(ps) == [tag |-> "Play", play |-> ps]

\* process_keyboard_event, under the state lock.  A panic ends process_events
\* before update_keyboard_freeplay; the mutations made so far stay.
ProcessKeyboardEvent(x, y, edge) ==
    /\ panicked = "no"
    /\ events_result = "running"
    /\ state_lock = "free"
    /\ IF state.tag = "Loading"
       THEN /\ UNCHANGED state
            /\ audio_sent' = <<>>
            /\ kb_sent' = <<>>
            /\ took' = "loading"
            /\ UNCHANGED panicked
       ELSE LET out == KeyOutcome(state.play, x, y, edge, now)
            IN  /\ state' = Play(out.ps)
                /\ audio_sent' = out.audio
                /\ kb_sent' = IF out.panic = "no"
                              THEN update_keyboard_freeplay(out.ps)
                              ELSE <<>>
                /\ panicked' = out.panic
                /\ took' = out.branch
    /\ UNCHANGED <<loading_anim_ct, animVars, loading_end_sent, now, schedVars>>

\* process_audio_event that leaves the token of the loading animation alone
ProcessAudioEvent_nocancel(sounds) ==
    /\ panicked = "no"
    /\ events_result = "running"
    /\ state_lock = "free"
    /\ ~loading_end_sent
    /\ loading_end_sent' = TRUE
    /\ state' = Play(NewPlayState(sounds, now))
    /\ kb_sent' = update_keyboard_freeplay(NewPlayState(sounds, now))
    /\ audio_sent' = <<>>
    /\ took' = "loading_end"
    /\ UNCHANGED <<loading_anim_ct, animVars, now, panicked, schedVars>>

\* process_audio_event for LoadingEnd { sounds }
ProcessAudioEvent(sounds) ==
    /\ panicked = "no"
    /\ events_result = "running"
    /\ state_lock = "free"
    /\ ~loading_end_sent
    /\ loading_end_sent' = TRUE
    /\ loading_anim_ct' = IF state.tag = "Loading" THEN TRUE ELSE loading_anim_ct
    /\ state' = Play(NewPlayState(sounds, now))
    /\ kb_sent' = update_keyboard_freeplay(NewPlayState(sounds, now))
    /\ audio_sent' = <<>>
    /\ took' = "loading_end"
    /\ UNCHANGED <<animVars, now, panicked, schedVars>>

\* render_reassign: a click on a listed subdirectory
GuiSelectDir(dir) ==
    /\ state_lock = "free"
    /\ state.tag = "Play"
    /\ IsSome(state.play.reassign)
    /\ dir \in Unwrap(state.play.reassign).subdirs_in_dir
    /\ LET ps == [state.play EXCEPT !.reassign =
                     Some(ReassignState_select_dir(Unwrap(@), dir, state.play.sounds))]
       IN  /\ state' = Play(ps)
           /\ kb_sent' = update_keyboard_freeplay(ps)
    /\ audio_sent' = <<>>
    /\ took' = "select_dir"
    /\ UNCHANGED <<loading_anim_ct, animVars, loading_end_sent, now, panicked, schedVars>>

\* render_reassign: a click on a listed sound
GuiSelectSound(i) ==
    /\ state_lock = "free"
    /\ state.tag = "Play"
    /\ IsSome(state.play.reassign)
    /\ i \in 1 .. Len(Unwrap(state.play.reassign).sounds_in_dir)
    /\ LET ps == [state.play EXCEPT !.reassign =
                     Some(ReassignState_select_sound(Unwrap(@), Unwrap(@).sounds_in_dir[i]))]
       IN  /\ state' = Play(ps)
           /\ kb_sent' = update_keyboard_freeplay(ps)
    /\ audio_sent' = <<>>
    /\ took' = "select_sound"
    /\ UNCHANGED <<loading_anim_ct, animVars, loading_end_sent, now, panicked, schedVars>>

\* wall-clock instants at which the steps of the model are taken
ClockValues == {0, 1100000}

\* time passes
Advance(t) ==
    /\ t > now
    /\ now' = t
    /\ took' = "time"
    /\ UNCHANGED <<state, loading_anim_ct, animVars, loading_end_sent, audio_sent, kb_sent, panicked,
                   schedVars>>

\* ---- process_loops

\* a Duration of num/den microseconds, in whole microseconds
DurationMicros(d) == d.num \div d.den

\* tokio::time::interval(Duration::from_millis(250))
LoadingPeriodMicros == 250000

\* the entries of loops that are due at tick `time`:
\* (now as isize - l.offset).rem_euclid(l.period as isize) == 0
DueLoops(ps, time) ==
    SelectSeq(ps.loops, LAMBDA l : (time - l.offset) % l.period = 0)

\* rem_euclid panics on a period of 0
ProcessLoopsPanics(ps) == \E n \in 1 .. Len(ps.loops) : ps.loops[n].period = 0

\* the blink of the loop divider LED (F4): the commands sent at tick `time`
DividerBlink(ps, time) ==
    IF IsSome(ps.loop_divider)
    THEN LET ld == Unwrap(ps.loop_divider)
             ld_period == IF ld > 0 THEN 60 \div ld ELSE 60 * (-ld)
         IN  IF ld = 0 THEN <<>>
             ELSE IF time % ld_period = 0
                  THEN <<set_solid_color(3, 0, Color_WHITE)>>
                  ELSE IF time % ld_period = ld_period \div 2
                       THEN <<set_solid_color(3, 0, Color_BLACK)>>
                       ELSE <<>>
    ELSE IF time % 30 = 0 THEN <<set_solid_color(3, 0, Color_BLACK)>> ELSE <<>>

\* the sounds of a sequence of loop entries
RECURSIVE SoundsOf(_)
SoundsOf(ls) == IF ls = <<>> THEN <<>> ELSE <<Head(ls).sound>> \o SoundsOf(Tail(ls))

\* a match arm that is taken in Play whether or not a key is being reassigned
LoopsArm_anyplay(st) == st.tag = "Play"

\* AppState::Play(state) if state.reassign.is_none()
LoopsArm(st) == st.tag = "Play" /\ st.play.reassign = None

\* process_loops, from state.lock().await to the end of the match.  The guard
\* of the lock is a temporary of the let statement, whose scope is extended
\* to the end of the loop body: it is still held while interval.tick() is
\* awaited.  A new interval completes its first tick at once.
LoopsIterate ==
    /\ loops_pc = "lock"
    /\ state_lock = "free"
    /\ IF LoopsArm(state)
       THEN LET ps == state.play
                time == PlayState_loop_time(ps, now)
                renew == interval_period # DurationMicros(ps.tick)
            IN  /\ interval_period' = DurationMicros(ps.tick)
                /\ interval_deadline' = IF renew THEN now ELSE interval_deadline
                /\ sched_idx' = Some(time)
                /\ sched_first' = IF IsSome(sched_first) THEN sched_first ELSE Some(time)
                /\ IF ProcessLoopsPanics(ps)
                   THEN /\ loops_pc' = "panicked"
                        /\ state_lock' = "free"
                        /\ audio_sent' = <<>>
                        /\ kb_sent' = <<>>
                        /\ UNCHANGED loop_plays
                   ELSE /\ loops_pc' = "tick"
                        /\ state_lock' = "loops"
                        /\ audio_sent' = SoundsOf(DueLoops(ps, time))
                        /\ kb_sent' = DividerBlink(ps, time)
                        /\ loop_plays' =
                              IF ps.loops # <<>> /\ ps.loops[1] \in Range(DueLoops(ps, time))
                              THEN loop_plays + 1 ELSE loop_plays
       ELSE /\ loops_pc' = "tick"
            /\ state_lock' = "loops"
            /\ audio_sent' = <<>>
            /\ kb_sent' = <<>>
            /\ UNCHANGED <<interval_period, interval_deadline, sched_first, sched_idx,
                           loop_plays>>
    /\ took' = "loops"
    /\ UNCHANGED <<state, loading_anim_ct, animVars, loading_end_sent, now, panicked>>

\* interval.tick().await completes, `late` after the deadline or after now if
\* the deadline has passed; the next deadline is one period later; the guard
\* of the lock is dropped at the end of the loop body
LoopsTick(late) ==
    /\ loops_pc = "tick"
    /\ now' = (IF now > interval_deadline THEN now ELSE interval_deadline) + late
    /\ interval_deadline' = interval_deadline + interval_period
    /\ loops_pc' = "lock"
    /\ state_lock' = "free"
    /\ took' = "time"
    /\ UNCHANGED <<state, loading_anim_ct, animVars, loading_end_sent, audio_sent, kb_sent, panicked,
                   interval_period, sched_first, sched_idx, loop_plays>>

\* ---- what the environment does within the bounds of the model

\* the keys that produce events in Spec: the function row and two sound keys
EventKeys == {<<0, 0>>, <<1, 0>>, <<2, 0>>, <<3, 0>>, <<2, 1>>, <<0, 3>>}

\* the keys that produce events in SpecLoop: F2, F3, F4 and one sound key
LoopKeys == {<<1, 0>>, <<2, 0>>, <<3, 0>>, <<2, 1>>}

MaxHeld == 2
MaxLoops == 1

HeldKeys(ps) ==
    Cardinality({i \in FnKeys : ps.fn_keys[i].pressed})
        + Cardinality({k \in SoundKeyPos : ps.sound_keys[k].pressed})

\* at most MaxHeld keys are held down at once
HeldBound == state.tag = "Play" => HeldKeys(state.play) <= MaxHeld

\* at most MaxLoops loops are recorded
LoopsBound == state.tag = "Play" => Len(state.play.loops) <= MaxLoops

\* in Spec the keys of the looper controls are left alone in normal mode
LooperUntouched ==
    state.tag = "Play" =>
        /\ state.play.loop_divider = None
        /\ state.play.quantize
        /\ state.play.tick = InitialTick

\* the longest listing of sounds of one directory in Catalogs
MaxListed == 2

\* process_loops before its first iteration
SchedIdle ==
    /\ state_lock = "free"
    /\ loops_pc = "lock"
    /\ interval_period = LoadingPeriodMicros
    /\ interval_deadline = 0
    /\ sched_first = None
    /\ sched_idx = None
    /\ loop_plays = 0

\* Color::from_f32 of components given in tenths: (c * 255.) as u8
Color_from_tenths(r, g, b) == <<(r * 255) \div 10, (g * 255) \div 10, (b * 255) \div 10, 255>>

Color_LOADING == Color_from_tenths(0, 0, 3)
Color_HIGHLIGHT == Color_from_tenths(0, 2, 7)

\* the thread of start_loading_animation, just spawned
AnimStarted ==
    /\ anim_pc = "init"
    /\ anim_i = 0
    /\ anim_late = <<>>

\* the thread of start_loading_animation, ended before the change to Play
AnimExited ==
    /\ anim_pc = "exited"
    /\ anim_i = 0
    /\ anim_late = <<>>

\* the keys of the pad: for x in 0..4, for y in 0..4; highlight % 16
KeyCount == GridSize * GridSize

\* a command of the animation goes into the channel
AnimSends(cmd) ==
    anim_late' = IF state.tag = "Play" THEN Append(anim_late, cmd) ELSE anim_late

\* for x in 0..4 { for y in 0..4 { set_solid_color(.., x, y, ..) } }: one
\* send; after the last, highlight = 15
AnimFill ==
    /\ anim_pc = "init"
    /\ AnimSends(set_solid_color(anim_i \div 4, anim_i % 4, Color_LOADING))
    /\ anim_i' = IF anim_i = KeyCount - 1 THEN KeyCount - 1 ELSE anim_i + 1
    /\ anim_pc' = IF anim_i = KeyCount - 1 THEN "check" ELSE "init"
    /\ UNCHANGED <<state, loading_anim_ct, loading_end_sent, now, audio_sent, kb_sent,
                   panicked, took, schedVars>>

\* while !ct.is_cancelled()
AnimCheck ==
    /\ anim_pc = "check"
    /\ anim_pc' = IF loading_anim_ct THEN "exited" ELSE "dim"
    /\ UNCHANGED <<state, loading_anim_ct, loading_end_sent, now, audio_sent, kb_sent,
                   panicked, took, schedVars, anim_i, anim_late>>

\* the first send of the loop body, and highlight = (highlight + 1) % 16
AnimDim ==
    /\ anim_pc = "dim"
    /\ AnimSends(set_solid_color(anim_i % 4, anim_i \div 4, Color_LOADING))
    /\ anim_i' = (anim_i + 1) % KeyCount
    /\ anim_pc' = "lit"
    /\ UNCHANGED <<state, loading_anim_ct, loading_end_sent, now, audio_sent, kb_sent,
                   panicked, took, schedVars>>

\* the second send of the loop body, then the thread sleeps
AnimLit ==
    /\ anim_pc = "lit"
    /\ AnimSends(set_solid_color(anim_i % 4, anim_i \div 4, Color_HIGHLIGHT))
    /\ anim_pc' = "sleep"
    /\ UNCHANGED <<state, loading_anim_ct, loading_end_sent, now, audio_sent, kb_sent,
                   panicked, took, schedVars, anim_i>>

\* std::thread::sleep(Duration::from_millis(250)) is over
AnimWakes ==
    /\ anim_pc = "sleep"
    /\ anim_pc' = "check"
    /\ UNCHANGED <<state, loading_anim_ct, loading_end_sent, now, audio_sent, kb_sent,
                   panicked, took, schedVars, anim_i, anim_late>>

AppIdle ==
    /\ state = Loading
    /\ loading_anim_ct = FALSE
    /\ AnimStarted
    /\ loading_end_sent = FALSE
    /\ now = 0
    /\ audio_sent = <<>>
    /\ kb_sent = <<>>
    /\ panicked = "no"
    /\ took = "none"
    /\ SchedIdle

InitApp == AppIdle

\* SpecLoop starts in Play with the nested catalog loaded at time 0 and
\* sound key (2, 1) bound, every key released
InitLoop ==
    /\ \E id \in 1 .. Len(CatNested) :
          LET ps == [NewPlayState(CatNested, 0) EXCEPT !.sound_keys[<<2, 1>>].binding = Some(id)]
          IN  /\ state = Play(ps)
              /\ kb_sent = update_keyboard_freeplay(ps)
    /\ loading_anim_ct = TRUE
    /\ AnimExited
    /\ loading_end_sent = TRUE
    /\ now = 0
    /\ audio_sent = <<>>
    /\ panicked = "no"
    /\ took = "none"
    /\ SchedIdle

\* process_loops runs up to this tick of the looper
MaxSchedTicks == 61

\* how late after its deadline a tick of the interval completes: on time, or
\* a fifth of a tick late (the task is scheduled late, or waits for the lock)
Lateness == {0, TickMicros \div 5}

\* the instants at which SpecSched starts, within tick 1 of the looper
SchedStarts == {TickMicros, TickMicros + (9 * TickMicros) \div 10}

\* the keys that produce events in SpecSched: F1 and F2
SchedKeys == {<<0, 0>>, <<1, 0>>}

\* the keys that produce events in SpecHold: F1 and the bound sound key
HoldKeys == {<<0, 0>>, <<2, 1>>}

\* process_loops runs up to this tick of the looper in SpecHold
HoldTicks == 12

\* Play, loaded at time 0, after the first iteration of process_loops in Play
\* and the key presses that chose `divider` and added a loop of the bound
\* sound at tick 1: offset 1 - 1 % period = 0
InitSchedWith(divider, period) ==
    /\ \E t \in SchedStarts :
          LET ps == [NewPlayState(CatNested, 0) EXCEPT
                        !.sound_keys[<<2, 1>>].binding = Some(1),
                        !.loop_divider = Some(divider),
                        !.loops = <<[offset |-> 0, period |-> period, sound |-> 1]>>]
          IN  /\ state = Play(ps)
              /\ kb_sent = update_keyboard_freeplay(ps)
              /\ now = t
              /\ interval_deadline = t + TickMicros
    /\ loading_anim_ct = TRUE
    /\ AnimExited
    /\ loading_end_sent = TRUE
    /\ audio_sent = <<>>
    /\ panicked = "no"
    /\ took = "none"
    /\ state_lock = "free"
    /\ loops_pc = "lock"
    /\ interval_period = TickMicros
    /\ sched_first = None
    /\ sched_idx = None
    /\ loop_plays = 0

\* SpecSched starts with divider 2 and a loop of period 30
InitSched == InitSchedWith(2, 30)

\* SpecHold starts with divider 6 and a loop of period 10
InitHold == InitSchedWith(6, 10)

\* SpecAppend starts with divider 8 and a loop of period 7
InitAppend == InitSchedWith(8, 7)

\* the keys SpecAppend presses: F2 (quantize), F4 (loop mode), the bound key
AppendKeys == {<<1, 0>>, <<3, 0>>, <<2, 1>>}

\* the instants SpecAppend advances the clock to: in ticks 24 and 66
AppendClock == {400000, 1100000}

\* SpecAppend records at most this many loops
MaxAppended == 2

(***************************************************************************)
(* keyboard.rs: the render loop of run and the channel of Commands.        *)
(* A Duration is a number of hundredths of a second and the progress of a  *)
(* fade a number of hundredths, so progress 100 is the 1.0 of the program. *)
(***************************************************************************)

PixelCount == 16
Pixels == 0 .. (PixelCount - 1)

\* progress 1.0
Whole == 100

FadeLinear(from, to, duration, progress) ==
    [kind |-> "FadeLinear", from |-> from, to |-> to, duration |-> duration,
     progress |-> progress]

FadeExp(from, to, duration, progress) ==
    [kind |-> "FadeExp", from |-> from, to |-> to, duration |-> duration,
     progress |-> progress]

SetState(x, y, st) == [x |-> x, y |-> y, state |-> st]

\* neopixel::GRB::put: the bytes of a colour in the device's order
GRB_put(color) == <<color[2], color[1], color[3]>>

\* (from * rp + to * p) as u8 for each channel, p = num / den < 1
Interpolate(from, to, num, den) ==
    [c \in 1 .. 4 |-> (from[c] * (den - num) + to[c] * num) \div den]

\* one pixel of the animation pass: its next state and the colour written
\* to the device (None when nothing is written)
AnimatePixel(st) ==
    CASE st.kind = "Solid" ->
            IF st.update
            THEN [state |-> [st EXCEPT !.update = FALSE], write |-> Some(st.color)]
            ELSE [state |-> st, write |-> None]
      [] st.kind = "FadeLinear" ->
            LET p == st.progress + st.duration
            IN  IF p < Whole
                THEN [state |-> [st EXCEPT !.progress = p],
                      write |-> Some(Interpolate(st.from, st.to, p, Whole))]
                ELSE [state |-> Solid(st.to, TRUE), write |-> Some(st.to)]
      [] st.kind = "FadeExp" ->
            LET p == st.progress + st.duration
                p3 == p * p * p
            IN  IF p3 < Whole * Whole * Whole
                THEN [state |-> [st EXCEPT !.progress = p],
                      write |-> Some(Interpolate(st.from, st.to, p3, Whole * Whole * Whole))]
                ELSE [state |-> Solid(st.to, TRUE), write |-> None]

\* the drain that keeps the first command of each coordinate
RECURSIVE DrainCommands_first(_, _)
DrainCommands_first(states, queue) ==
    IF queue = <<>> THEN states
    ELSE LET cmd == queue[Len(queue)]
         IN  DrainCommands_first(
                 [states EXCEPT ![cmd.y * 4 + cmd.x] = cmd.state],
                 SubSeq(queue, 1, Len(queue) - 1))

\* the loop of try_recv: each command overwrites pixel_states[y * 4 + x]
RECURSIVE DrainCommands(_, _)
DrainCommands(states, queue) ==
    IF queue = <<>> THEN states
    ELSE LET cmd == Head(queue)
         IN  DrainCommands([states EXCEPT ![cmd.y * 4 + cmd.x] = cmd.state], Tail(queue))

\* the bus writes of one animation pass, in the order of the pixels
RECURSIVE AnimationWrites(_, _)
AnimationWrites(states, i) ==
    IF i >= PixelCount THEN <<>>
    ELSE LET w == AnimatePixel(states[i]).write
         IN  (IF IsSome(w)
              THEN <<[pixel |-> neotrellis_xy_to_key(i % 4, i \div 4),
                      bytes |-> GRB_put(Unwrap(w))]>>
              ELSE <<>>)
             \o AnimationWrites(states, i + 1)

\* the device's buffer after the writes ws
RECURSIVE ApplyWrites(_, _)
ApplyWrites(buf, ws) ==
    IF ws = <<>> THEN buf
    ELSE ApplyWrites([buf EXCEPT ![Head(ws).pixel] = Head(ws).bytes], Tail(ws))

\* Interval::new(Duration::from_millis(1000 / 60)): the period of the render
\* loop in milliseconds, and the milliseconds in a hundredth of a second
RenderPeriodMillis == 16
MillisPerHundredth == 10

\* a pixel in a fade
IsFade(st) == st.kind \in {"FadeLinear", "FadeExp"}

\* interval.tick(), nt.lock() and the for loop over pixel_states; elapsed is
\* the wall-clock time since the previous tick, at least the period
\* the writes of a pass fail with the bus: the first `?` ends the thread with
\* the error, and the guard is dropped on the way out
RenderAnimate(elapsed) ==
    /\ render_pc = "tick"
    /\ nt_lock = "free"
    /\ elapsed >= RenderPeriodMillis
    /\ IF bus_ok \/ AnimationWrites(pixel_states, 0) = <<>>
       THEN /\ fade_elapsed' = [i \in Pixels |->
                    IF IsFade(pixel_states[i]) THEN fade_elapsed[i] + elapsed ELSE 0]
            /\ pixel_states' = [i \in Pixels |-> AnimatePixel(pixel_states[i]).state]
            /\ writes' = AnimationWrites(pixel_states, 0)
            /\ pixel_buf' = ApplyWrites(pixel_buf, AnimationWrites(pixel_states, 0))
            /\ start_len' = Len(cmd_queue)
            /\ render_pc' = "drain"
            /\ nt_lock' = "render"
       ELSE /\ render_pc' = "failed"
            /\ nt_lock' = "free"
            /\ UNCHANGED <<fade_elapsed, pixel_states, writes, pixel_buf, start_len>>
    /\ UNCHANGED <<cmd_queue, sends, senders_alive, shown, drained, bus_ok, pollVars,
                   send_blocked>>

\* match cmd_rx.try_recv(): every pending command is taken and executed;
\* Disconnected (no command left and no sender alive) breaks out of the loop
RenderDrain ==
    /\ render_pc = "drain"
    /\ pixel_states' = DrainCommands(pixel_states, cmd_queue)
    /\ drained' = cmd_queue
    /\ cmd_queue' = <<>>
    /\ render_pc' = IF cmd_queue = <<>> /\ ~senders_alive THEN "exited" ELSE "show"
    /\ nt_lock' = IF cmd_queue = <<>> /\ ~senders_alive THEN "free" ELSE nt_lock
    /\ fade_elapsed' = [i \in Pixels |->
            IF \E k \in 1 .. Len(cmd_queue) :
                  neotrellis_xy_to_key(cmd_queue[k].x, cmd_queue[k].y) = i
            THEN 0 ELSE fade_elapsed[i]]
    /\ UNCHANGED <<sends, senders_alive, pixel_buf, shown, start_len, writes, bus_ok, pollVars,
                   send_blocked>>

\* nt.show()?, then the guard of the device mutex is dropped: at the end of
\* the iteration, or with the error of the transaction
RenderShow ==
    /\ render_pc = "show"
    /\ shown' = IF bus_ok THEN pixel_buf ELSE shown
    /\ render_pc' = IF bus_ok THEN "tick" ELSE "failed"
    /\ nt_lock' = "free"
    /\ UNCHANGED <<cmd_queue, sends, senders_alive, pixel_states, pixel_buf, start_len,
                   drained, writes, fade_elapsed, bus_ok, pollVars, send_blocked>>

\* the capacity of the channel behind kb_cmd_tx and cmd_rx
CmdQueueCap == 4

\* cmd_rx lives in the closure of the render thread and is dropped with it
ReceiverAlive == render_pc \notin {"exited", "failed"}

\* kb_cmd_tx.send(cmd) by a holder of the sender: flume's send returns Err
\* when the receiver is gone, and waits for room when the channel is full
SendCommand(cmd) ==
    /\ senders_alive
    /\ ~IsSome(send_blocked)
    /\ sends' = sends + 1
    /\ IF ~ReceiverAlive
       THEN UNCHANGED <<cmd_queue, send_blocked>>
       ELSE IF Len(cmd_queue) < CmdQueueCap
       THEN cmd_queue' = Append(cmd_queue, cmd) /\ UNCHANGED send_blocked
       ELSE send_blocked' = Some(cmd) /\ UNCHANGED cmd_queue
    /\ UNCHANGED <<senders_alive, pixel_states, pixel_buf, shown, render_pc, start_len,
                   drained, writes, fade_elapsed, nt_lock, bus_ok, pollVars>>

\* the send that waited returns: with the command queued once there is room,
\* or with the Err of a receiver that is gone
SendResumes ==
    /\ IsSome(send_blocked)
    /\ ~ReceiverAlive \/ Len(cmd_queue) < CmdQueueCap
    /\ cmd_queue' = IF ReceiverAlive THEN Append(cmd_queue, Unwrap(send_blocked))
                                     ELSE cmd_queue
    /\ send_blocked' = None
    /\ UNCHANGED <<sends, senders_alive, pixel_states, pixel_buf, shown, render_pc, start_len,
                   drained, writes, fade_elapsed, nt_lock, bus_ok, pollVars>>

\* the last Sender of the channel is dropped
DropSenders ==
    /\ senders_alive
    /\ ~IsSome(send_blocked)
    /\ senders_alive' = FALSE
    /\ UNCHANGED <<cmd_queue, sends, pixel_states, pixel_buf, shown, render_pc, start_len,
                   drained, writes, fade_elapsed, nt_lock, bus_ok, pollVars, send_blocked>>

\* ---- the polling loop of run, and what surrounds the two threads
renderVars == <<cmd_queue, sends, senders_alive, pixel_states, pixel_buf, shown, render_pc,
               start_len, drained, writes, fade_elapsed, send_blocked>>

\* a raw event as the device queues it: a seesaw key code and an edge value
KeypadEvent(code, edge) == [key |-> code, edge |-> edge]

\* keypad::KeyEvent::from_u8 behind KeyEvent::from_u8: the decoder of a raw
\* event, which fails on an edge value that Edge::from_u8 rejects
keypad_KeyEvent_from_u8(raw) ==
    IF Edge_from_u8(raw.edge) = "InvalidArgument"
    THEN None
    ELSE Some([key |-> raw.key, edge |-> Edge_from_u8(raw.edge)])

\* the for loop of NeoTrellis::get_keypad_events over the events read: each
\* is decoded and converted, one outside the 4 x 4 grid is skipped, and the
\* `?` on a failed decode returns the error in place of the whole Vec
RECURSIVE get_keypad_events_decode(_)
get_keypad_events_decode(evts) ==
    IF evts = <<>> THEN Some(<<>>)
    ELSE LET kev == keypad_KeyEvent_from_u8(Head(evts))
             rest == get_keypad_events_decode(Tail(evts))
         IN  IF ~IsSome(kev) \/ ~IsSome(rest) THEN None
             ELSE LET key == KeyEvent_from(Unwrap(kev).key)
                  IN  IF key[1] > 3 \/ key[2] > 3 THEN rest
                      ELSE Some(<<[key |-> key, edge |-> Unwrap(kev).edge]>>
                                \o Unwrap(rest))

\* a polling loop that takes the device without waiting for its guard
PollLock_nolock ==
    /\ poll_pc = "tick"
    /\ nt_lock' = "poll"
    /\ poll_pc' = "count"
    /\ UNCHANGED <<renderVars, bus_ok, fifo, evt_count, evt_sent, cancelled, run_result, events_result>>

\* interval.tick() and nt.lock().unwrap() of the polling loop
PollLock ==
    /\ poll_pc = "tick"
    /\ nt_lock = "free"
    /\ nt_lock' = "poll"
    /\ poll_pc' = "count"
    /\ UNCHANGED <<renderVars, bus_ok, fifo, evt_count, evt_sent, cancelled, run_result, events_result>>

\* get_keypad_event_count(delay)?: the error ends the thread, a count of zero
\* ends the iteration with nothing to send
PollCount ==
    /\ poll_pc = "count"
    /\ IF ~bus_ok
       THEN poll_pc' = "failed" /\ nt_lock' = "free" /\ UNCHANGED <<evt_count, evt_sent>>
       ELSE IF Len(fifo) = 0
       THEN poll_pc' = "tick" /\ nt_lock' = "free" /\ evt_count' = 0 /\ evt_sent' = <<>>
       ELSE poll_pc' = "fifo" /\ evt_count' = Len(fifo) /\ UNCHANGED <<nt_lock, evt_sent>>
    /\ UNCHANGED <<renderVars, bus_ok, fifo, cancelled, run_result, events_result>>

\* the read of the FIFO, the conversion of the events read and their sending
\* on evt_tx; the guard is dropped at the end of the iteration.  The `?` of
\* the polling loop ends the thread with the error of get_keypad_events, of
\* the bus or of the decoder, before anything is sent
PollFifo ==
    /\ poll_pc = "fifo"
    /\ IF ~bus_ok
       THEN poll_pc' = "failed" /\ UNCHANGED <<fifo, evt_sent>>
       ELSE LET res == get_keypad_events_decode(SubSeq(fifo, 1, evt_count))
            IN  /\ poll_pc' = IF IsSome(res) THEN "tick" ELSE "undecoded"
                /\ evt_sent' = IF IsSome(res) THEN Unwrap(res) ELSE <<>>
                /\ fifo' = SubSeq(fifo, evt_count + 1, Len(fifo))
    /\ nt_lock' = "free"
    /\ UNCHANGED <<renderVars, bus_ok, evt_count, cancelled, run_result, events_result>>

\* a key of the pad changes: the device queues the event
KeyActivity(code, edge) ==
    /\ fifo' = Append(fifo, KeypadEvent(code, edge))
    /\ UNCHANGED <<renderVars, nt_lock, bus_ok, poll_pc, evt_count, evt_sent, cancelled,
                   run_result, events_result>>

\* the device stops answering on the bus
BusFails ==
    /\ bus_ok
    /\ bus_ok' = FALSE
    /\ UNCHANGED <<renderVars, nt_lock, pollVars>>

\* ct.cancel() by the owner of the token handed to run
Cancel ==
    /\ ~cancelled
    /\ cancelled' = TRUE
    /\ UNCHANGED <<renderVars, nt_lock, bus_ok, poll_pc, fifo, evt_count, evt_sent, run_result, events_result>>

\* thread::scope returns once both threads have ended; their results are
\* dropped with the handles, and run ends with Ok(())
RunReturns ==
    /\ run_result = "running"
    /\ render_pc \in {"exited", "failed"}
    /\ poll_pc \in {"failed", "undecoded"}
    /\ run_result' = "Ok"
    /\ UNCHANGED <<renderVars, nt_lock, bus_ok, poll_pc, fifo, evt_count, evt_sent, cancelled,
                   events_result>>

\* evt_tx lives in the closure of the polling thread and is dropped with it;
\* kb_evt_rx.recv_async() of process_events then yields Err, and `evt?`
\* returns it
EventsRecvDisconnected ==
    /\ events_result = "running"
    /\ poll_pc \in {"failed", "undecoded"}
    /\ events_result' = "Err"
    /\ UNCHANGED <<renderVars, nt_lock, bus_ok, poll_pc, fifo, evt_count, evt_sent, cancelled,
                   run_result>>

\* the audio thread has ended and its event channel is disconnected:
\* audio_evt_rx.recv_async() yields Err, `evt?` returns it, and process_events
\* drops kb_evt_rx, the only receiver of the key events
EventsAudioDisconnected ==
    /\ events_result = "running"
    /\ events_result' = "Err"
    /\ UNCHANGED <<renderVars, nt_lock, bus_ok, poll_pc, fifo, evt_count, evt_sent, cancelled,
                   run_result>>

\* the receiver of the key events is gone
EvtReceiverClosed == events_result # "running"

\* ---- what the senders do within the bounds of the model

\* the commands sent: two coordinates, each of the three pixel states
MaxSends == 3
HalfSecond == Whole \div 2
Color_GRAY == Color_from_u8(50, 50, 50)
CmdCoords == {<<0, 0>>, <<1, 2>>}
CmdStates ==
    { Solid(Color_BLACK, TRUE), Solid(Color_GRAY, TRUE),
      FadeLinear(Color_BLACK, Color_WHITE, HalfSecond, 0),
      FadeExp(Color_BLACK, Color_WHITE, HalfSecond, 0) }
Commands == {SetState(c[1], c[2], st) : c \in CmdCoords, st \in CmdStates}

\* the sends of SpecQueue: the recomputations of update_keyboard_freeplay,
\* each of 16 commands
QueueSends == 3 * PixelCount

\* the wall-clock time between two render ticks: the period, or a stall of
\* the thread as long as the fades of CmdStates
StallMillis == HalfSecond * MillisPerHundredth
TickElapsed == {RenderPeriodMillis, StallMillis}

KbIdle ==
    /\ cmd_queue = <<>>
    /\ sends = 0
    /\ senders_alive = TRUE
    /\ pixel_states = [i \in Pixels |-> Solid(Color_WHITE, TRUE)]
    /\ pixel_buf = [i \in Pixels |-> <<0, 0, 0>>]
    /\ shown = [i \in Pixels |-> <<0, 0, 0>>]
    /\ render_pc = "tick"
    /\ start_len = 0
    /\ drained = <<>>
    /\ writes = <<>>
    /\ fade_elapsed = [i \in Pixels |-> 0]
    /\ nt_lock = "free"
    /\ bus_ok = TRUE
    /\ poll_pc = "tick"
    /\ fifo = <<>>
    /\ evt_count = 0
    /\ evt_sent = <<>>
    /\ cancelled = FALSE
    /\ run_result = "running"
    /\ send_blocked = None
    /\ events_result = "running"

\* vec![PixelState::Solid { color: Color::WHITE, update: true }; 16], the
\* device's buffer cleared by the reset
InitKeyboard == KbIdle

\* run after its initialisation: both threads at the top of their loops
InitDevice == KbIdle

\* the events the device queues within the bounds of the model: a key of
\* the pad and a code beyond the 4 x 4 grid, with the edge values of
\* Falling and Rising and one that is no edge
MaxFifo == 2
DeviceCodes == {9, 32}
DeviceEdges == {2, 3, 4}

(***************************************************************************)
(* Specifications                                                          *)
(***************************************************************************)

otherThanDriver == <<pathVars, appVars, kbVars>>
otherThanPath == <<driverVars, appVars, kbVars>>
otherThanApp == <<driverVars, pathVars, kbVars>>
otherThanKb == <<driverVars, pathVars, appVars>>

\* ---- SpecDriver: the conversions applied to every coordinate and byte
InitDriverSpec == InitDriver /\ PathIdle /\ AppIdle /\ KbIdle

NextDriver ==
    \/ ConvertInto /\ UNCHANGED otherThanDriver
    \/ ConvertFrom /\ UNCHANGED otherThanDriver
    \/ DecodeEdge /\ UNCHANGED otherThanDriver

SpecDriver == InitDriverSpec /\ [][NextDriver]_vars

\* ---- SpecBus: one call of SeeSaw::write or SeeSaw::read on a bus that may fail
InitBusSpec == InitBus /\ PathIdle /\ AppIdle /\ KbIdle

BusCallWrite == CallWrite /\ UNCHANGED otherThanDriver

BusCallRead == CallRead /\ UNCHANGED otherThanDriver

NextBus == BusCallWrite \/ BusCallRead

SpecBus == InitBusSpec /\ [][NextBus]_vars

\* ---- SpecPath: path_intersection applied to every pair of paths
InitPathSpec == InitPath /\ DriverIdle /\ AppIdle /\ KbIdle

NextPath == PathIntersect /\ UNCHANGED otherThanPath

SpecPath == InitPathSpec /\ [][NextPath]_vars

\* ---- Spec: loading, play and reassignment, the looper left alone
Init == InitApp /\ DriverIdle /\ PathIdle /\ KbIdle

KeyEvent ==
    \E k \in EventKeys, e \in Edges :
        /\ ProcessKeyboardEvent(k[1], k[2], e)
        /\ HeldBound'
        /\ (InPlay /\ IsSome(state.play.reassign)) \/ LooperUntouched'
        /\ UNCHANGED otherThanApp

LoadingEnd == \E c \in Catalogs : ProcessAudioEvent(c) /\ UNCHANGED otherThanApp

SelectDir == \E d \in Range(SegOrder) : GuiSelectDir(d) /\ UNCHANGED otherThanApp

SelectSound == \E i \in 1 .. MaxListed : GuiSelectSound(i) /\ UNCHANGED otherThanApp

Next == KeyEvent \/ LoadingEnd \/ SelectDir \/ SelectSound

Spec == Init /\ [][Next]_vars

\* ---- SpecLoading: the thread of the loading animation and LoadingEnd
LoadingFill == AnimFill /\ UNCHANGED otherThanApp

LoadingCheck == AnimCheck /\ UNCHANGED otherThanApp

LoadingDim == AnimDim /\ UNCHANGED otherThanApp

LoadingLit == AnimLit /\ UNCHANGED otherThanApp

LoadingWakes == AnimWakes /\ UNCHANGED otherThanApp

NextLoading ==
    LoadingFill \/ LoadingCheck \/ LoadingDim \/ LoadingLit \/ LoadingWakes \/ LoadingEnd

SpecLoading == Init /\ [][NextLoading]_vars

\* ---- SpecBpm: F1, F3 and F4, which change the tick while F1 is held
BpmKeys == {<<0, 0>>, <<2, 0>>, <<3, 0>>}

\* bpm_up is pressed up to this BPM
MaxBpm == 61

InitBpmSpec == InitLoop /\ DriverIdle /\ PathIdle /\ KbIdle

BpmKeyEvent ==
    \E k \in BpmKeys, e \in Edges :
        /\ ProcessKeyboardEvent(k[1], k[2], e)
        /\ state'.tag = "Play" => PlayState_bpm(state'.play) <= MaxBpm
        /\ UNCHANGED otherThanApp

NextBpm == BpmKeyEvent

SpecBpm == InitBpmSpec /\ [][NextBpm]_vars

\* ---- SpecLoop: the looper controls and one bound sound key, as time passes
InitLoopSpec == InitLoop /\ DriverIdle /\ PathIdle /\ KbIdle

LoopKeyEvent ==
    \E k \in LoopKeys, e \in Edges :
        /\ ProcessKeyboardEvent(k[1], k[2], e)
        /\ HeldBound'
        /\ LoopsBound'
        /\ UNCHANGED otherThanApp

TimePasses == \E t \in ClockValues : Advance(t) /\ UNCHANGED otherThanApp

NextLoop == LoopKeyEvent \/ TimePasses

SpecLoop == InitLoopSpec /\ [][NextLoop]_vars

\* ---- SpecSched: process_loops with one loop entry, and the quantize key
InitSchedSpec == InitSched /\ DriverIdle /\ PathIdle /\ KbIdle

SchedIterate == LoopsIterate /\ UNCHANGED otherThanApp

SchedTick ==
    \E late \in Lateness :
        /\ state.tag = "Play"
        /\ PlayState_loop_time(state.play, now) < MaxSchedTicks
        /\ LoopsTick(late)
        /\ UNCHANGED otherThanApp

SchedKeyEvent ==
    \E k \in SchedKeys, e \in Edges :
        /\ ProcessKeyboardEvent(k[1], k[2], e)
        /\ UNCHANGED otherThanApp

NextSched == SchedIterate \/ SchedTick \/ SchedKeyEvent

SpecSched == InitSchedSpec /\ [][NextSched]_vars

\* ---- SpecHold: process_loops while a key is reassigned and released
InitHoldSpec == InitHold /\ DriverIdle /\ PathIdle /\ KbIdle

HoldIterate == LoopsIterate /\ UNCHANGED otherThanApp

HoldTick ==
    \E late \in Lateness :
        /\ state.tag = "Play"
        /\ PlayState_loop_time(state.play, now) < HoldTicks
        /\ LoopsTick(late)
        /\ UNCHANGED otherThanApp

HoldKeyEvent ==
    \E k \in HoldKeys, e \in Edges :
        /\ ProcessKeyboardEvent(k[1], k[2], e)
        /\ LoopsBound'
        /\ UNCHANGED otherThanApp

NextHold == HoldIterate \/ HoldTick \/ HoldKeyEvent

SpecHold == InitHoldSpec /\ [][NextHold]_vars

\* ---- SpecAppend: add_to_loops on top of a recorded loop, as time passes
InitAppendSpec == InitAppend /\ DriverIdle /\ PathIdle /\ KbIdle

AppendKeyEvent ==
    \E k \in AppendKeys, e \in Edges :
        /\ ProcessKeyboardEvent(k[1], k[2], e)
        /\ HeldBound'
        /\ state'.tag = "Play" => Len(state'.play.loops) <= MaxAppended
        /\ UNCHANGED otherThanApp

AppendTime == \E t \in AppendClock : Advance(t) /\ UNCHANGED otherThanApp

NextAppend == AppendKeyEvent \/ AppendTime

SpecAppend == InitAppendSpec /\ [][NextAppend]_vars

\* ---- SpecKeyboard: the render loop and the senders of its commands
InitKeyboardSpec == InitKeyboard /\ DriverIdle /\ PathIdle /\ AppIdle

Animate == \E elapsed \in TickElapsed : RenderAnimate(elapsed) /\ UNCHANGED otherThanKb

Drain == RenderDrain /\ UNCHANGED otherThanKb

Show == RenderShow /\ UNCHANGED otherThanKb

Send == \E cmd \in Commands : sends < MaxSends /\ SendCommand(cmd) /\ UNCHANGED otherThanKb

Disconnect == DropSenders /\ UNCHANGED otherThanKb

NextKeyboard == Animate \/ Drain \/ Show \/ Send \/ Disconnect

SpecKeyboard == InitKeyboardSpec /\ [][NextKeyboard]_vars

\* ---- SpecQueue: one sender that outpaces the render loop
InitQueueSpec == InitKeyboard /\ DriverIdle /\ PathIdle /\ AppIdle

QueueSend ==
    /\ sends < QueueSends
    /\ SendCommand(set_solid_color(0, 0, Color_GRAY))
    /\ UNCHANGED otherThanKb

QueueResume == SendResumes /\ UNCHANGED otherThanKb

QueueAnimate == RenderAnimate(RenderPeriodMillis) /\ UNCHANGED otherThanKb

QueueDrain == RenderDrain /\ UNCHANGED otherThanKb

QueueShow == RenderShow /\ UNCHANGED otherThanKb

NextQueue == QueueSend \/ QueueResume \/ QueueAnimate \/ QueueDrain \/ QueueShow

SpecQueue == InitQueueSpec /\ [][NextQueue]_vars

\* ---- SpecDevice: the two threads of run on the one device
InitDeviceSpec == InitDevice /\ DriverIdle /\ PathIdle /\ AppIdle

DevAnimate == RenderAnimate(RenderPeriodMillis) /\ UNCHANGED otherThanKb

DevDrain == RenderDrain /\ UNCHANGED otherThanKb

DevShow == RenderShow /\ UNCHANGED otherThanKb

DevDisconnect == DropSenders /\ UNCHANGED otherThanKb

DevPollLock == PollLock /\ UNCHANGED otherThanKb

DevPollCount == PollCount /\ UNCHANGED otherThanKb

DevPollFifo == PollFifo /\ UNCHANGED otherThanKb

DevKey ==
    \E code \in DeviceCodes, edge \in DeviceEdges :
        /\ Len(fifo) < MaxFifo
        /\ KeyActivity(code, edge)
        /\ UNCHANGED otherThanKb

DevBusFails == BusFails /\ UNCHANGED otherThanKb

DevCancel == Cancel /\ UNCHANGED otherThanKb

DevReturn == RunReturns /\ UNCHANGED otherThanKb

DevEventsEnd == EventsRecvDisconnected /\ UNCHANGED otherThanKb

NextDevice ==
    \/ DevAnimate \/ DevDrain \/ DevShow \/ DevDisconnect
    \/ DevPollLock \/ DevPollCount \/ DevPollFifo
    \/ DevKey \/ DevBusFails \/ DevCancel \/ DevReturn \/ DevEventsEnd

SpecDevice == InitDeviceSpec /\ [][NextDevice]_vars

\* the threads are scheduled: a step of either that stays possible is taken
SpecDeviceLive ==
    /\ SpecDevice
    /\ WF_vars(DevAnimate \/ DevDrain \/ DevShow)
    /\ WF_vars(DevPollLock \/ DevPollCount \/ DevPollFifo)
    /\ WF_vars(DevReturn)

\* ---- SpecPoll: the polling loop, well-formed key events, and the receiver
\* of its events going away
PollEdges == {2, 3}

InitPollSpec == InitDevice /\ DriverIdle /\ PathIdle /\ AppIdle

PollStepLock == PollLock /\ UNCHANGED otherThanKb

PollStepCount == PollCount /\ UNCHANGED otherThanKb

PollStepFifo == PollFifo /\ UNCHANGED otherThanKb

PollKey ==
    \E code \in DeviceCodes, edge \in PollEdges :
        /\ Len(fifo) < MaxFifo
        /\ KeyActivity(code, edge)
        /\ UNCHANGED otherThanKb

PollReceiverCloses == EventsAudioDisconnected /\ UNCHANGED otherThanKb

NextPoll == PollStepLock \/ PollStepCount \/ PollStepFifo \/ PollKey \/ PollReceiverCloses

SpecPoll == InitPollSpec /\ [][NextPoll]_vars

(***************************************************************************)
(* Claims                                                                  *)
(***************************************************************************)

\* C1: converting (x, y) to the seesaw key code and back yields (x, y), and
\* the 16 codes are pairwise distinct.
C1_RoundTrip ==
    /\ key_out # NoKey => key_out = key_in
    /\ \A a, b \in Coord \X Coord : KeyEvent_into(a) = KeyEvent_into(b) => a = b

\* C2: Edge::from_u8 returns High, Low, Falling, Rising for 0, 1, 2, 3 and
\* the InvalidArgument error for every byte in 4..255.
C2_EdgeDecode ==
    edge_out # "pending" =>
        /\ edge_in = 0 => edge_out = "High"
        /\ edge_in = 1 => edge_out = "Low"
        /\ edge_in = 2 => edge_out = "Falling"
        /\ edge_in = 3 => edge_out = "Rising"
        /\ edge_in \in 4 .. 255 => edge_out = "InvalidArgument"

C2_Witness == edge_in = 2 /\ edge_out = "Falling"

IsPrefix(p, s) == Len(p) <= Len(s) /\ \A i \in 1 .. Len(p) : p[i] = s[i]

\* p is the longest common leading sequence of components of a and b
IsLongestCommonPrefix(p, a, b) ==
    /\ IsPrefix(p, a)
    /\ IsPrefix(p, b)
    /\ (Len(p) < Len(a) /\ Len(p) < Len(b)) => a[Len(p) + 1] # b[Len(p) + 1]

\* C3: path_intersection returns the longest common leading sequence of
\* components of its arguments, is symmetric and is idempotent; /a/b/c/d and
\* /a/b/c/e give /a/b/c.
C3_PathIntersection ==
    path_pc = "done" =>
        /\ IsLongestCommonPrefix(pi_lr, left, right)
        /\ pi_lr = pi_rl
        /\ pi_ll = left
        /\ (left = <<"/", "a", "b", "c", "d">> /\ right = <<"/", "a", "b", "c", "e">>)
              => pi_lr = <<"/", "a", "b", "c">>

C3_Witness ==
    /\ path_pc = "done"
    /\ left = <<"/", "a", "b", "c", "d">>
    /\ right = <<"/", "a", "b", "c", "e">>
    /\ pi_lr = <<"/", "a", "b", "c">>



\* the sequence of the claim, starting from None
DividerRing ==
    << None, Some(-8), Some(-6), Some(-4), Some(-3), Some(-2), Some(0),
       Some(1), Some(2), Some(3), Some(4), Some(5), Some(6) >>
RingIndex(d) == CHOOSE i \in 1 .. Len(DividerRing) : DividerRing[i] = d
RingSucc(d) == DividerRing[(RingIndex(d) % Len(DividerRing)) + 1]

\* n calls of cycle_loop_mode from d
RECURSIVE CycleTimes(_, _)
CycleTimes(n, d) == IF n = 0 THEN d ELSE CycleLoopMode(CycleTimes(n - 1, d))

\* C4: from None, calls of cycle_loop_mode visit -8, -6, -4, -3, -2, 0, 1, 2,
\* 3, 4, 5, 6, None in this order, so 13 calls return to None; loop_divider is
\* always one of these values and the unreachable!() arm is never taken.
C4_CycleRing ==
    /\ [](/\ \A n \in 1 .. 13 : CycleTimes(n, None) = DividerRing[(n % 13) + 1]
          /\ panicked # "unreachable"
          /\ InPlay => state.play.loop_divider \in Range(DividerRing))
    /\ [][(InPlay /\ took' = "cycle")
            => state'.play.loop_divider = RingSucc(state.play.loop_divider)]_vars

C4_Witness ==
    /\ InPlay
    /\ took = "cycle"
    /\ state.play.loop_divider = None
    /\ state.play.fn_keys[3].pressed

Abs(n) == IF n < 0 THEN -n ELSE n

\* C5: the period of a new loop entry under divider d is 60*|d| ticks when
\* d < 0, 60/d ticks (integer division) when d > 0, and
\* floor(sound duration / tick duration) when d = 0; d = 1 gives 60, d = -2
\* gives 120, d = 0 with a 2-second sound at the initial tick gives 120.
C5_LoopPeriod ==
    [][(InPlay /\ state'.tag = "Play"
            /\ Len(state'.play.loops) = Len(state.play.loops) + 1)
        => LET d == Unwrap(state.play.loop_divider)
               l == state'.play.loops[Len(state'.play.loops)]
               dur == state.play.sounds[l.sound].duration
               tk == state.play.tick
           IN  /\ d < 0 => l.period = 60 * Abs(d)
               /\ d > 0 => (l.period * d <= 60 /\ 60 < (l.period + 1) * d)
               /\ d = 0 => /\ l.period * tk.num <= dur * tk.den
                           /\ dur * tk.den < (l.period + 1) * tk.num
               /\ d = 1 => l.period = 60
               /\ d = -2 => l.period = 120
               /\ (d = 0 /\ dur = 2 * MicrosPerSec /\ tk = InitialTick) => l.period = 120]_vars

C5_Witness ==
    /\ InPlay
    /\ took = "play"
    /\ state.play.loop_divider = Some(0)
    /\ Len(state.play.loops) = 1
    /\ state.play.loops[1].period = 120
    /\ state.play.sounds[state.play.loops[1].sound].duration = 2 * MicrosPerSec

\* base is the longest common leading sequence of components of all paths
\* of the catalog (the empty path for an empty catalog)
IsCatalogPrefix(base, sounds) ==
    /\ \A i \in 1 .. Len(sounds) : IsPrefix(base, sounds[i].path)
    /\ sounds = <<>> => base = <<>>
    /\ sounds # <<>> =>
          \/ \E i \in 1 .. Len(sounds) : Len(sounds[i].path) = Len(base)
          \/ \E i, j \in 1 .. Len(sounds) :
                sounds[i].path[Len(base) + 1] # sounds[j].path[Len(base) + 1]

\* C6: in Play with no reassignment and F1 held, a press of a sound key (x, y)
\* creates a ReassignState with target (x, y), current_dir = base_dir, no
\* selection, and base_dir the longest common prefix of the catalog's paths.
C6_ReassignBegin ==
    [][\A k \in SoundKeyPos :
        (/\ InPlay
         /\ state.play.reassign = None
         /\ state.play.fn_keys[0].pressed
         /\ ProcessKeyboardEvent(k[1], k[2], "Rising"))
        => /\ state'.tag = "Play"
           /\ IsSome(state'.play.reassign)
           /\ LET r == Unwrap(state'.play.reassign)
              IN  /\ r.key = k
                  /\ r.current_dir = r.base_dir
                  /\ r.selection = None
                  /\ IsCatalogPrefix(r.base_dir, state.play.sounds)]_vars

C6_Witness ==
    /\ InPlay
    /\ took = "begin"
    /\ IsSome(state.play.reassign)
    /\ Unwrap(state.play.reassign).key = <<2, 1>>
    /\ Unwrap(state.play.reassign).base_dir = <<"/", "audio">>
    /\ Unwrap(state.play.reassign).current_dir = <<"/", "audio">>

Binding(ps, k) == ps.sound_keys[k].binding

\* C7: while reassignment targets (x, y) and a sound s is selected, pressing
\* F4 binds s to (x, y), changes no other binding and leaves no ReassignState.
C7_ReassignSave ==
    [][(/\ InPlay
        /\ IsSome(state.play.reassign)
        /\ IsSome(Unwrap(state.play.reassign).selection)
        /\ ProcessKeyboardEvent(3, 0, "Rising"))
       => LET r == Unwrap(state.play.reassign)
          IN  /\ state'.play.reassign = None
              /\ Binding(state'.play, r.key) = r.selection
              /\ \A k \in SoundKeyPos \ {r.key} :
                    Binding(state'.play, k) = Binding(state.play, k)]_vars

C7_Witness ==
    /\ InPlay
    /\ took = "save"
    /\ state.play.reassign = None
    /\ Binding(state.play, <<2, 1>>) = Some(2)
    /\ Binding(state.play, <<0, 3>>) = Some(1)

\* C8: while reassignment is active, pressing F1 removes the ReassignState
\* and the bindings of all 12 sound keys are as they were when reassignment
\* began: no step taken while it is active, other than a save, changes one.
C8_ReassignQuit ==
    [][(InPlay /\ IsSome(state.play.reassign))
       => /\ ProcessKeyboardEvent(0, 0, "Rising") => state'.play.reassign = None
          /\ (ProcessKeyboardEvent(0, 0, "Rising") \/ IsSome(state'.play.reassign))
                => \A k \in SoundKeyPos :
                      Binding(state'.play, k) = Binding(state.play, k)]_vars

C8_Witness ==
    /\ InPlay
    /\ took = "quit"
    /\ state.play.reassign = None
    /\ Binding(state.play, <<2, 1>>) = Some(2)
    /\ state.play.fn_keys[1].pressed


\* the pixel of the device a command addresses
CmdPixel(cmd) == neotrellis_xy_to_key(cmd.x, cmd.y)

\* the position in queue of the last command for pixel i, 0 when there is none
LastCmd(queue, i) ==
    LET ks == {k \in 1 .. Len(queue) : CmdPixel(queue[k]) = i}
    IN  IF ks = {} THEN 0 ELSE CHOOSE k \in ks : \A j \in ks : j <= k

\* C9: a SetState of Solid(color, update = true) that was in the queue when a
\* render iteration began, and that no later command for its coordinate
\* followed, shows its colour on the LEDs when that iteration has ended.
C9_VisibleNextTick ==
    render_pc = "tick"
        => \A k \in 1 .. start_len :
              (/\ k = LastCmd(drained, CmdPixel(drained[k]))
               /\ drained[k].state.kind = "Solid"
               /\ drained[k].state.update)
                  => shown[CmdPixel(drained[k])] = GRB_put(drained[k].state.color)

\* C10: the drain leaves every pixel that got commands in the state of the
\* last of them and every other pixel as it was, and writes nothing to the
\* device; the writes of the animation pass that follows carry, for a pixel
\* whose last command was Solid, the colour of that last command only.
C10_Coalesce ==
    /\ [](render_pc = "drain"
            => \A n \in 1 .. Len(writes) :
                  LET k == LastCmd(drained, writes[n].pixel)
                  IN  (k > 0 /\ drained[k].state.kind = "Solid")
                         => writes[n].bytes = GRB_put(drained[k].state.color))
    /\ [][(render_pc = "drain" /\ render_pc' # "drain")
            => /\ \A i \in Pixels :
                     pixel_states'[i] =
                        IF LastCmd(cmd_queue, i) > 0
                        THEN cmd_queue[LastCmd(cmd_queue, i)].state
                        ELSE pixel_states[i]
               /\ pixel_buf' = pixel_buf
               /\ shown' = shown]_vars

\* a burst of two different Solid colours for one pixel and a command for
\* another pixel were drained together, and the next animation pass wrote
\* the last colour of the burst
C10_Witness ==
    /\ render_pc = "drain"
    /\ \E j, k, m \in 1 .. Len(drained) :
          /\ j < k
          /\ CmdPixel(drained[j]) = CmdPixel(drained[k])
          /\ CmdPixel(drained[m]) # CmdPixel(drained[k])
          /\ drained[j].state.kind = "Solid"
          /\ drained[k].state.kind = "Solid"
          /\ drained[j].state.color # drained[k].state.color
          /\ k = LastCmd(drained, CmdPixel(drained[k]))
          /\ \E n \in 1 .. Len(writes) :
                /\ writes[n].pixel = CmdPixel(drained[k])
                /\ writes[n].bytes = GRB_put(drained[k].state.color)

\* the bytes the writes ws carry for pixel i (None when there is none)
WriteTo(ws, i) ==
    LET ns == {n \in 1 .. Len(ws) : ws[n].pixel = i}
    IN  IF ns = {} THEN None ELSE Some(ws[CHOOSE n \in ns : TRUE].bytes)

\* C11: a FadeLinear pixel sent with progress 0 that has been animated for a
\* total elapsed time t writes the interpolation at t / D and is still a fade
\* while t < D, and is Solid(to) once t >= D; it is never Solid before that.
C11_FadeLinearWallClock ==
    [][\A i \in Pixels :
        (render_pc = "tick" /\ render_pc' = "drain" /\ pixel_states[i].kind = "FadeLinear")
        => LET st == pixel_states[i]
               t == fade_elapsed'[i]
               D == st.duration * MillisPerHundredth
           IN  /\ t < D => /\ pixel_states'[i].kind = "FadeLinear"
                           /\ WriteTo(writes', i)
                                 = Some(GRB_put(Interpolate(st.from, st.to, t, D)))
               /\ t >= D => /\ pixel_states'[i].kind = "Solid"
                            /\ pixel_states'[i].color = st.to]_vars

\* the ticks from lo to hi at which the loop entry l is due
DueTicks(lo, hi, l) == {n \in lo .. hi : (n - l.offset) % l.period = 0}

\* C12: with Play active and no reassignment, process_loops issues Play for
\* a loop entry at every tick n with (n - offset) mod period = 0, once each,
\* and at no other tick: when it has run from tick a to tick b, it has sent
\* one Play for each due tick of a .. b.
C12_SchedulerTicks ==
    (/\ InPlay
     /\ loops_pc = "tick"
     /\ IsSome(sched_idx)
     /\ state.play.loops # <<>>)
        => loop_plays
             = Cardinality(DueTicks(Unwrap(sched_first), Unwrap(sched_idx), state.play.loops[1]))

\* C13: every LoopState of loops has period > 0 in every reachable state, so
\* neither offset % period in add_to_loops nor the remainder by period in
\* process_loops divides by zero.
C13_PeriodPositive ==
    /\ panicked # "remainder by zero"
    /\ loops_pc # "panicked"
    /\ InPlay => \A n \in 1 .. Len(state.play.loops) : state.play.loops[n].period > 0

\* C14: in every state with a ReassignState, current_dir is base_dir or has
\* base_dir as a proper leading part, whatever select_dir and up_dir did.
C14_WithinBaseDir ==
    (InPlay /\ IsSome(state.play.reassign))
        => IsPrefix(Unwrap(state.play.reassign).base_dir,
                    Unwrap(state.play.reassign).current_dir)

\* F2 was pressed during reassignment and current_dir is at base_dir
C14_Witness ==
    /\ InPlay
    /\ took = "up"
    /\ IsSome(state.play.reassign)
    /\ Unwrap(state.play.reassign).current_dir = Unwrap(state.play.reassign).base_dir
    /\ Unwrap(state.play.reassign).base_dir = <<"/", "audio">>

\* C15: a ReassignState exists only in Play, and a key event processed while
\* it exists sends no Play, leaves quantize, loop_divider, loops and tick as
\* they are, starts no other reassignment, and changes no binding unless it
\* is the save (F4).
C15_ReassignExclusive ==
    /\ [](state.tag = "Loading" => DOMAIN state = {"tag", "stage"})
    /\ [][\A k \in EventKeys, e \in Edges :
            (InPlay /\ IsSome(state.play.reassign) /\ ProcessKeyboardEvent(k[1], k[2], e))
            => /\ state'.tag = "Play"
               /\ audio_sent' = <<>>
               /\ state'.play.quantize = state.play.quantize
               /\ state'.play.loop_divider = state.play.loop_divider
               /\ state'.play.loops = state.play.loops
               /\ state'.play.tick = state.play.tick
               /\ IsSome(state'.play.reassign)
                     => /\ Unwrap(state'.play.reassign).key = Unwrap(state.play.reassign).key
                        /\ Unwrap(state'.play.reassign).base_dir
                              = Unwrap(state.play.reassign).base_dir
               /\ took' # "save"
                     => \A b \in SoundKeyPos :
                           Binding(state'.play, b) = Binding(state.play, b)]_vars

\* during the reassignment of key (2, 1), with F1 still held, another sound
\* key was pressed, and the reassignment still targets (2, 1)
C15_Witness ==
    /\ InPlay
    /\ IsSome(state.play.reassign)
    /\ Unwrap(state.play.reassign).key = <<2, 1>>
    /\ state.play.fn_keys[0].pressed
    /\ state.play.sound_keys[<<0, 3>>].pressed
    /\ took = "flag"

\* C16: the state starts as Loading, becomes Play only when a LoadingEnd is
\* processed, which cancels the token of the loading animation, and never
\* returns to Loading; a key event processed while Loading changes nothing
\* and sends no command.
C16_LoadingToPlay ==
    /\ state.tag = "Loading"
    /\ [][/\ (state.tag = "Loading" /\ state'.tag = "Play")
               => (took' = "loading_end" /\ loading_anim_ct')
          /\ state.tag = "Play" => state'.tag = "Play"
          /\ \A k \in EventKeys, e \in Edges :
                (state.tag = "Loading" /\ ProcessKeyboardEvent(k[1], k[2], e))
                => (state' = state /\ audio_sent' = <<>> /\ kb_sent' = <<>>)]_vars

\* the LoadingEnd has just been processed
C16_Witness ==
    /\ InPlay
    /\ took = "loading_end"
    /\ loading_anim_ct
    /\ state.play.sounds = CatNested

\* C18: the lock of the application state is not held while its holder waits
\* on a timer: process_loops does not hold it while it awaits the next tick
\* of its interval.
C18_NoLockAcrossWait == loops_pc = "tick" => state_lock # "loops"

\* a thread of run between taking the guard of the device and dropping it
RenderInIteration == render_pc \in {"drain", "show"}
PollInIteration == poll_pc \in {"count", "fifo"}

\* C17: the render loop and the polling loop are never both inside an
\* iteration: whichever is inside holds the guard of the device from the
\* start of its iteration to the end, and the guard is free when neither is
C17_DeviceExclusive ==
    /\ ~(RenderInIteration /\ PollInIteration)
    /\ RenderInIteration => nt_lock = "render"
    /\ PollInIteration => nt_lock = "poll"
    /\ (~RenderInIteration /\ ~PollInIteration) => nt_lock = "free"

\* the polling loop is reading the FIFO while the render loop, which has
\* shown a frame before, is due for its next iteration
C17_Witness ==
    /\ poll_pc = "fifo"
    /\ render_pc = "tick"
    /\ shown # [i \in Pixels |-> <<0, 0, 0>>]
    /\ nt_lock = "poll"

\* C19: once the token is cancelled, the threads of run end and run returns
C19_CancelEndsRun == cancelled ~> (run_result # "running")

\* C20: run does not return Ok(()) when a thread of it has ended with the
\* error of a bus transaction
C20_BusErrorReturned ==
    run_result = "Ok" => (render_pc # "failed" /\ poll_pc # "failed")

\* the events of a batch that decode and lie on the grid, in order
RECURSIVE DecodableEvents(_)
DecodableEvents(evts) ==
    IF evts = <<>> THEN <<>>
    ELSE LET kev == keypad_KeyEvent_from_u8(Head(evts))
             rest == DecodableEvents(Tail(evts))
         IN  IF ~IsSome(kev) THEN rest
             ELSE LET key == KeyEvent_from(Unwrap(kev).key)
                  IN  IF key[1] > 3 \/ key[2] > 3 THEN rest
                      ELSE <<[key |-> key, edge |-> Unwrap(kev).edge]>> \o rest

\* C21: the polling loop that reads a batch on a working bus forwards every
\* event of it that decodes, whether or not another event of the batch fails
\* to decode, and goes on to its next iteration
C21_DecodeFailureDropsOne ==
    [][(poll_pc = "fifo" /\ poll_pc' # "fifo" /\ bus_ok)
          => /\ poll_pc' = "tick"
             /\ evt_sent' = DecodableEvents(SubSeq(fifo, 1, evt_count))]_vars

\* C22: no kb_cmd_tx.send waits: a send to a full queue returns at once
C22_SendNeverBlocks == ~IsSome(send_blocked)

\* C23: a loop whose channel is disconnected ends with Ok: process_events
\* never returns an error, and the render loop that finds the command
\* channel disconnected ends as exited, not as failed
C23_DisconnectEndsOk ==
    [][/\ events_result' # "Err"
       /\ (render_pc = "drain" /\ cmd_queue = <<>> /\ ~senders_alive)
             => render_pc' \in {"drain", "exited"}]_vars

\* C24: a step taken while a ReassignState is present sends no Play; an
\* iteration of process_loops then sends no LED command either and changes
\* nothing, and a sound-key event only sets the press flag of its key
C24_ReassignSilent ==
    [][(InPlay /\ IsSome(state.play.reassign))
          => /\ audio_sent' = <<>>
             /\ (loops_pc = "lock" /\ loops_pc' # "lock")
                   => (kb_sent' = <<>> /\ state' = state /\ loop_plays' = loop_plays)
             /\ \A k \in SoundKeyPos, e \in Edges :
                   ProcessKeyboardEvent(k[1], k[2], e)
                   => state' = Play(SetPressed(state.play, k[1], k[2], EdgePressed(e)))]_vars

\* process_loops has just iterated at tick 10, when the loop of period 10 is
\* due, while key (2, 1) is being reassigned
C24_Witness ==
    /\ InPlay
    /\ IsSome(state.play.reassign)
    /\ took = "loops"
    /\ loops_pc = "tick"
    /\ PlayState_loop_time(state.play, now) = 10
    /\ state.play.sound_keys[<<2, 1>>].pressed

\* the PlayState ps with the press flag of key (x, y) as it is in `old`
WithFlagOf(ps, old, x, y) ==
    IF y = 0
    THEN [ps EXCEPT !.fn_keys[x].pressed = old.fn_keys[x].pressed]
    ELSE [ps EXCEPT !.sound_keys[<<x, y>>].pressed = old.sound_keys[<<x, y>>].pressed]

\* C25: in Play a key event whose edge is High, Low or Falling sends no Play
\* and changes nothing of the PlayState but the press flag of its key
C25_OnlyRisingActs ==
    [][\A k \in EventKeys, e \in Edges \ {"Rising"} :
          (InPlay /\ ProcessKeyboardEvent(k[1], k[2], e))
          => /\ audio_sent' = <<>>
             /\ panicked' = "no"
             /\ state'.tag = "Play"
             /\ WithFlagOf(state'.play, state.play, k[1], k[2]) = state.play]_vars

\* Play with no reassignment and F1 released
NormalMode ==
    /\ InPlay
    /\ ~IsSome(state.play.reassign)
    /\ ~state.play.fn_keys[0].pressed

\* C26: in normal mode a press of F3 leaves no loop entry and no divider
C26_ClearLoops ==
    [][(NormalMode /\ ProcessKeyboardEvent(2, 0, "Rising"))
          => /\ state'.tag = "Play"
             /\ state'.play.loops = <<>>
             /\ state'.play.loop_divider = None]_vars

\* C27: a press on the function row in normal mode.  With F1 released, F2
\* toggles quantize, F3 clears the loops and the divider, F4 cycles the
\* divider, and tick stays; with F1 held, F3 and F4 change tick as bpm_down
\* and bpm_up do, and quantize, loop_divider and loops stay
C27_FunctionRow ==
    [][\A x \in FnKeys :
          (InPlay /\ ~IsSome(state.play.reassign) /\ ProcessKeyboardEvent(x, 0, "Rising"))
          => LET ps == state.play
                 f1 == IF x = 0 THEN TRUE ELSE ps.fn_keys[0].pressed
                 qs == state'.play
             IN  /\ panicked' = "no"
                 /\ state'.tag = "Play"
                 /\ IF ~f1
                    THEN /\ x = 1 => qs.quantize = ~ps.quantize
                         /\ x = 2 => (qs.loops = <<>> /\ qs.loop_divider = None)
                         /\ x = 3 => qs.loop_divider = CycleLoopMode(ps.loop_divider)
                         /\ qs.tick = ps.tick
                    ELSE /\ x = 2 => qs.tick = PlayState_bpm_down(ps).tick
                         /\ x = 3 => qs.tick = PlayState_bpm_up(ps).tick
                         /\ qs.quantize = ps.quantize
                         /\ qs.loop_divider = ps.loop_divider
                         /\ qs.loops = ps.loops]_vars

\* C28: in normal mode a press of a sound key bound to s sends exactly
\* Play{s} and appends one loop entry of s if a divider is set, none
\* otherwise; a press of an unbound sound key sends nothing and appends
\* nothing
C28_SoundKeyPress ==
    [][\A k \in SoundKeyPos :
          (NormalMode /\ ProcessKeyboardEvent(k[1], k[2], "Rising"))
          => LET ps == state.play
                 b == ps.sound_keys[k].binding
                 n == Len(ps.loops)
             IN  /\ state'.tag = "Play"
                 /\ IF IsSome(b)
                    THEN /\ audio_sent' = <<Unwrap(b)>>
                         /\ IF IsSome(ps.loop_divider)
                            THEN /\ Len(state'.play.loops) = n + 1
                                 /\ SubSeq(state'.play.loops, 1, n) = ps.loops
                                 /\ state'.play.loops[n + 1].sound = Unwrap(b)
                            ELSE state'.play.loops = ps.loops
                    ELSE /\ audio_sent' = <<>>
                         /\ state'.play.loops = ps.loops]_vars

\* the tick index of the looper at the present instant
NowTick == PlayState_loop_time(state.play, now)

Rgb(color) == <<color[1], color[2], color[3]>>

\* the colour the LED of key (x, y) is to show during the reassignment r
ReassignColorOk(x, y, color, r) ==
    IF y = 0
    THEN CASE x = 0 -> Rgb(color) = <<255, 0, 0>>
           [] x = 1 -> Rgb(color) = <<255, 165, 0>>
           [] x = 2 -> color = Color_BLACK
           [] x = 3 -> Rgb(color) = IF IsSome(r.selection) THEN <<0, 255, 0>> ELSE <<0, 50, 0>>
    ELSE color = IF <<x, y>> = r.key THEN Color_WHITE ELSE Color_BLACK

\* C30: while reassignment is active, update_keyboard_freeplay sends exactly
\* 16 commands, one per key: F1 red, F2 orange, F3 off, F4 bright green if a
\* selection exists and dim green otherwise, the target key white and every
\* other sound key off
C30_ReassignLeds ==
    [][\A k \in EventKeys, e \in Edges :
          (/\ ProcessKeyboardEvent(k[1], k[2], e)
           /\ state'.tag = "Play"
           /\ IsSome(state'.play.reassign))
          => LET r == Unwrap(state'.play.reassign)
             IN  /\ Len(kb_sent') = 16
                 /\ \A x \in 0 .. 3, y \in 0 .. 3 :
                       \E i \in 1 .. 16 :
                           /\ kb_sent'[i].x = x
                           /\ kb_sent'[i].y = y
                           /\ kb_sent'[i].state.kind = "Solid"
                           /\ ReassignColorOk(x, y, kb_sent'[i].state.color, r)]_vars

\* a key event during a reassignment with a sound selected: the save key
\* was set to bright green and the target key to white
C30_Witness ==
    /\ state.tag = "Play"
    /\ IsSome(state.play.reassign)
    /\ IsSome(Unwrap(state.play.reassign).selection)
    /\ took \in {"flag", "up"}
    /\ Len(kb_sent) = 16
    /\ kb_sent[4] = set_solid_color(3, 0, Color_from_u8(0, 255, 0))
    /\ \E i \in 5 .. 16 : kb_sent[i].state.color = Color_WHITE

\* the colour the LED of key (x, y) is to show in normal mode
NormalColorOk(x, y, color, ps) ==
    IF y = 0
    THEN CASE x = 0 -> color = Color_WHITE
           [] x = 1 -> color = IF ps.quantize THEN Color_WHITE ELSE Color_BLACK
           [] x = 2 -> color = Color_WHITE
           [] x = 3 -> FALSE
    ELSE IF IsSome(ps.sound_keys[<<x, y>>].binding)
         THEN Rgb(color) = <<50, 50, 50>>
         ELSE color = Color_BLACK

\* a command for the LED of F4 is among cmds
SetsF4(cmds) == \E i \in 1 .. Len(cmds) : cmds[i].x = 3 /\ cmds[i].y = 0

WritesTo(ws, i) ==
    SelectSeq(ws, LAMBDA w : w.pixel = neotrellis_xy_to_key(i % 4, i \div 4))

\* the fade st reaches progress 1.0 in the next animation pass
FadeCompletes(st) == IsFade(st) /\ st.progress + st.duration >= Whole

\* C32: the render loop writes a Solid pixel to the bus only when its update
\* flag is set and clears the flag after the write; a fade that reaches
\* progress 1.0 writes the final colour once and leaves Solid(to) with the
\* flag cleared, so that the pixel is not written again on later frames
C32_SolidWrittenOnce ==
    [][(render_pc = "tick" /\ render_pc' = "drain")
          => \A i \in Pixels :
                LET st == pixel_states[i]
                IN  /\ (st.kind = "Solid" /\ ~st.update)
                          => (WritesTo(writes', i) = <<>> /\ pixel_states'[i] = st)
                    /\ (st.kind = "Solid" /\ st.update)
                          => /\ Len(WritesTo(writes', i)) = 1
                             /\ WritesTo(writes', i)[1].bytes = GRB_put(st.color)
                             /\ pixel_states'[i] = Solid(st.color, FALSE)
                    /\ FadeCompletes(st)
                          => /\ Len(WritesTo(writes', i)) = 1
                             /\ WritesTo(writes', i)[1].bytes = GRB_put(st.to)
                             /\ pixel_states'[i] = Solid(st.to, FALSE)]_vars

\* C33: a poll iteration reads the pending count n and decodes exactly n
\* events, with no FIFO read when n = 0; it discards the events whose x or y
\* is greater than 3 and forwards the others in FIFO order; a poll iteration
\* that sends to a closed receiver is the last one of the loop
C33_PollForwards ==
    [][/\ (poll_pc = "count" /\ poll_pc' # "count")
             => IF Len(fifo) = 0
                THEN poll_pc' = "tick" /\ evt_sent' = <<>> /\ fifo' = fifo
                ELSE poll_pc' = "fifo" /\ evt_count' = Len(fifo) /\ fifo' = fifo
       /\ (poll_pc = "fifo" /\ poll_pc' # "fifo")
             => /\ evt_sent' = DecodableEvents(SubSeq(fifo, 1, evt_count))
                /\ fifo' = SubSeq(fifo, evt_count + 1, Len(fifo))
                /\ (EvtReceiverClosed /\ evt_sent' # <<>>) => poll_pc' # "tick"]_vars

\* C34: SeeSaw::write with a payload longer than 30 bytes returns InvalidSize
\* and performs no bus transaction; with at most 30 bytes it issues exactly
\* one bus write of [base, function, payload...], 2 + payload length bytes.
\* SeeSaw::read issues the zero-payload write of the register, then the
\* settle delay, then the bus read, in that order, and no bus read when the
\* write fails
C34_PayloadLimit ==
    /\ (sw_call.op = "write" /\ sw_result # "pending")
          => IF Len(sw_call.payload) > 30
             THEN sw_result = "InvalidSize" /\ sw_log = <<>>
             ELSE /\ sw_result \in {"Ok", "I2c"}
                  /\ Len(sw_log) = 1
                  /\ sw_log[1].op = "write"
                  /\ sw_log[1].bytes = <<sw_call.base, sw_call.function>> \o sw_call.payload
                  /\ sw_log[1].len = 2 + Len(sw_call.payload)
    /\ (sw_call.op = "read" /\ sw_result # "pending")
          => /\ Len(sw_log) \in {1, 3}
             /\ sw_log[1] = BusWrite(<<sw_call.base, sw_call.function>>)
             /\ Len(sw_log) = 1 => sw_result = "I2c"
             /\ Len(sw_log) = 3
                   => /\ sw_log[2] = BusDelay(14000)
                      /\ sw_log[3] = BusRead(sw_call.len)
                      /\ sw_result \in {"Ok", "I2c"}
             /\ \A i \in 1 .. Len(sw_log) : sw_log[i].op = "read" => i = 3

\* a write of exactly 30 bytes of payload went out as one transaction of 32
C34_Witness ==
    /\ sw_call.op = "write"
    /\ Len(sw_call.payload) = 30
    /\ sw_result = "Ok"
    /\ Len(sw_log) = 1
    /\ sw_log[1].len = 32

\* the listing of r is the one of its current_dir: the sounds whose parent
\* it is, and the first segments of the paths that go deeper
ListingOf(r, sounds) ==
    /\ Range(r.sounds_in_dir) =
          {i \in 1 .. Len(sounds) :
              /\ Len(sounds[i].path) = Len(r.current_dir) + 1
              /\ SubSeq(sounds[i].path, 1, Len(r.current_dir)) = r.current_dir}
    /\ r.subdirs_in_dir =
          {sounds[i].path[Len(r.current_dir) + 1] :
              i \in {j \in 1 .. Len(sounds) :
                         /\ Len(sounds[j].path) > Len(r.current_dir) + 1
                         /\ SubSeq(sounds[j].path, 1, Len(r.current_dir)) = r.current_dir}}

\* C35: up_dir changes nothing when current_dir equals base_dir, and
\* otherwise removes exactly the last segment of current_dir and recomputes
\* the listing; select_dir of a listed name followed by up_dir restores
\* current_dir, sounds_in_dir and subdirs_in_dir; neither changes the
\* pending selection or the target key
C35_UpDirRoundTrip ==
    [][/\ \A e \in {"Rising", "High"} :
             (/\ InPlay
              /\ IsSome(state.play.reassign)
              /\ ProcessKeyboardEvent(1, 0, e))
             => LET r == Unwrap(state.play.reassign)
                    r2 == Unwrap(state'.play.reassign)
                    n == Len(r.current_dir)
                IN  /\ IsSome(state'.play.reassign)
                    /\ r2.selection = r.selection
                    /\ r2.key = r.key
                    /\ r2.base_dir = r.base_dir
                    /\ IF r.current_dir = r.base_dir
                       THEN r2 = r
                       ELSE /\ r2.current_dir = SubSeq(r.current_dir, 1, n - 1)
                            /\ ListingOf(r2, state.play.sounds)
       /\ \A d \in Range(SegOrder) :
             GuiSelectDir(d)
             => LET r == Unwrap(state.play.reassign)
                    r1 == Unwrap(state'.play.reassign)
                IN  /\ r1.current_dir = Append(r.current_dir, d)
                    /\ r1.selection = r.selection
                    /\ r1.key = r.key
                    /\ ListingOf(r1, state.play.sounds)
                    /\ ReassignState_up_dir(r1, state.play.sounds) = r]_vars

\* a subdirectory was entered with a selection pending, and the up key was
\* pressed before: the directory is below base_dir
C35_Witness ==
    /\ InPlay
    /\ IsSome(state.play.reassign)
    /\ took = "select_dir"
    /\ state.play.fn_keys[1].pressed
    /\ IsSome(Unwrap(state.play.reassign).selection)
    /\ Len(Unwrap(state.play.reassign).current_dir)
          > Len(Unwrap(state.play.reassign).base_dir)

\* the pixel that SetState { x, y } lights: pixel_states[y * 4 + x] is
\* written by the render loop with set_pixel_color(i % 4, i / 4)
PixelOfSetState(xy) ==
    LET i == xy[2] * 4 + xy[1]
    IN  neotrellis_xy_to_key(i % 4, i \div 4)

\* C36: the coordinate decoded from the seesaw key code that
\* set_keypad_event(x, y) registers is (x, y), so the pixel lit by SetState at
\* the coordinate of a key event is the pixel of set_pixel_color(x, y), the
\* one under the key
C36_KeyUnderLed ==
    key_out # NoKey =>
        /\ seesaw_key = neotrellis_key_to_seesaw(neotrellis_xy_to_key(key_in[1], key_in[2]))
        /\ PixelOfSetState(key_out) = neotrellis_xy_to_key(key_in[1], key_in[2])

\* C37: once LoadingEnd has been processed and the LED mapping of Play is
\* in the channel, the thread of the loading animation puts no further
\* SetState command into it
C37_AnimationStopped == state.tag = "Play" => anim_late = <<>>

\* C38: PlayState.tick is a strictly positive duration in every reachable
\* state: BPM = floor(1 / tick) never drops to 0, the 1 / (BPM - 0.5) of
\* bpm_down is positive and the construction of the duration never fails
C38_TickPositive ==
    /\ panicked # "negative duration"
    /\ InPlay => /\ state.play.tick.num > 0
                 /\ state.play.tick.den > 0
                 /\ (MicrosPerSec * state.play.tick.den) \div state.play.tick.num >= 1

\* C39: a press of F4 (save) during a reassignment with no sound selected
\* leaves the binding of the target key as it was and ends the reassignment
C39_SaveWithoutSelection ==
    [][\A e \in {"Rising", "High"} :
          (/\ InPlay
           /\ IsSome(state.play.reassign)
           /\ Unwrap(state.play.reassign).selection = None
           /\ ProcessKeyboardEvent(3, 0, e))
          => /\ state'.tag = "Play"
             /\ state'.play.reassign = None
             /\ state'.play.sound_keys[Unwrap(state.play.reassign).key].binding
                   = state.play.sound_keys[Unwrap(state.play.reassign).key].binding]_vars

\* the path p lies at or under the directory dir
UnderDir(p, dir) == Len(p) >= Len(dir) /\ SubSeq(p, 1, Len(dir)) = dir

\* the sound i is offered at the directory of r: as a sound of the listing,
\* or else under a subdirectory of the listing
OfferedAt(r, sounds, i) ==
    LET n == Len(r.current_dir)
        listed == i \in Range(r.sounds_in_dir)
        below == Len(sounds[i].path) > n + 1 /\ sounds[i].path[n + 1] \in r.subdirs_in_dir
    IN  (listed \/ below) /\ ~(listed /\ below)

\* C40: for a non-empty catalog every sound can be reached by browsing from
\* base_dir: at base_dir every sound of the catalog, and at every directory
\* reached every sound under it, is listed as a sound or under exactly one
\* subdirectory of the listing
C40_EverySoundReachable ==
    (InPlay /\ IsSome(state.play.reassign))
        => LET r == Unwrap(state.play.reassign)
               sounds == state.play.sounds
           IN  \A i \in 1 .. Len(sounds) :
                   /\ r.current_dir = r.base_dir => UnderDir(sounds[i].path, r.current_dir)
                   /\ UnderDir(sounds[i].path, r.current_dir) => OfferedAt(r, sounds, i)

====
